---- MODULE Spec2Model ----
(***************************************************************************)
(* A model of the arbitrage bot's decision and execution core:             *)
(*   - ArbitrageExecutor.execute_opportunity with its execution guard      *)
(*     (src/engine/arb_executor.py), run by several concurrent callers;    *)
(*   - update_cumulative_profit, the profit ledger (src/engine/helpers.py),*)
(*     run by several concurrent writers against one file;                 *)
(*   - ArbitrageExecutor.scan_for_opportunity with check_gas_balance,      *)
(*     check_sell_pnl and the fixed-point arithmetic of                    *)
(*     src/core/math_utils.py;                                             *)
(*   - ArbitrageBot.run and scan_once (src/main.py) over one executor per  *)
(*     pool, with Pool.fetch_pool_data and PriceOracle.fetch_all_prices;   *)
(*   - Pool.swap and StratoClient.wait_for_transaction.                    *)
(*                                                                         *)
(* The specifications share the variables: Spec (the executor),            *)
(* LedgerSpec (the ledger writers) and ScanSpec (the scan); FinderSpec     *)
(* applies find_optimal_trade_auto to arbitrary arguments and AmmSpec      *)
(* applies get_output_amount and get_optimal_input; RepeatSpec calls the   *)
(* finder again and again; BotSpec is the polling loop (BotFairSpec with   *)
(* a sleep that returns), PairSpec several callers on several executors,   *)
(* SwapSpec applies Pool.swap and WaitSpec is one wait_for_transaction     *)
(* call (WaitFairSpec with a calling thread that keeps running).  Each     *)
(* leaves the variables of the others at their initial values.             *)
(***************************************************************************)
EXTENDS Integers, Sequences, FiniteSets, TLC

VARIABLES
    \* --- ArbitrageExecutor (one executor, shared by the callers) ---
    execution_lock,       \* holders of self._execution_lock: {} or one caller
    is_executing,         \* self.is_executing
    last_execution_time,  \* self.last_execution_time, as logical time: the number
                          \* of executions that have set it
    pc,                   \* pc[t]: position of caller t in execute_opportunity
    opp,                  \* opp[t]: the opportunity caller t was called with
    txs,                  \* txs[t]: length of the local list `transactions`
    raised,               \* raised[t]: the exception caught in the call, or NoError
    result,               \* the ExecutionResult returned last, with its caller
    \* --- profit ledger (profit.json) ---
    file,                 \* content of the profit file
    flock,                \* holders of the flock(LOCK_EX) on the file: {} or one writer
    wpc,                  \* wpc[w]: position of writer w in update_cumulative_profit
    wloc,                 \* wloc[w]: locals of writer w
    nrecords,             \* record calls made so far
    recorded,             \* history: the total before the calls plus every profit handed to a call
    \* --- scan ---
    cfg,                  \* executor configuration: fee_bps, min_profit
    scan,                 \* the last scan: what was fetched and what it returned
    \* --- finder ---
    finder,               \* the last find_optimal_trade_auto call: arguments, result
    \* --- constant-product arithmetic ---
    amm,                  \* the last get_output_amount / get_optimal_input call
    \* --- ArbitrageBot: the polling loop over one executor per pool ---
    bot,                  \* running, dry_run, the position of the main thread in
                          \* run / scan_once, the loop's i and opp, and the record
                          \* of the last scan of the polling cycle
    executors,            \* executors[e]: the guard of executor e, its pool's cached
                          \* _pool_data, whether its scan is active
    calls,                \* calls[t]: the execute_opportunity call of thread t
    oracle,               \* oracle[e]: PriceOracle._cache for the symbol of pool e's token A
    \* --- Pool.swap and StratoClient.wait_for_transaction on their own ---
    swap,                 \* the last Pool.swap call: arguments, transaction args built
    waiter                \* one wait_for_transaction call: clock, ceiling, position, outcome

vars == <<execution_lock, is_executing, last_execution_time, pc, opp, txs, raised,
          result, file, flock, wpc, wloc, nrecords, recorded, cfg, scan, finder, amm,
          bot, executors, calls, oracle, swap, waiter>>

\* The variables of the polling loop, and of the two client calls.
botVars == <<bot, executors, calls, oracle>>
clientVars == <<swap, waiter>>

----------------------------------------------------------------------------
(* Program constants.  The source works at WEI_SCALE = 10^18; the model    *)
(* keeps every formula of the source and scales the fixed point down to    *)
(* 100 so that products stay inside TLC's integers.  0.01 of a unit, the   *)
(* gas reserve WEI_SCALE // 100, is then 1.                                *)
WEI_SCALE == 100
BPS_DENOM == 10000

(* Bounds of the model. *)
NumCallers == 2      \* concurrent callers of execute_opportunity
MaxTime == 2         \* last_execution_time at which callers stop calling
NumWriters == 2      \* concurrent writers of the profit file
MaxRecords == 3      \* record calls in one behaviour
MaxProfit == 2       \* profit handed to a record call: 1..MaxProfit
MaxReserve == 4      \* pool reserves fetched by a scan: 0..MaxReserve
MaxBalance == 2      \* wallet balances fetched by a scan: 0..MaxBalance

\* A lock is the set of its holders: empty, or one thread.
NoOne == {}
NoError == "none"

Callers == 1..NumCallers
Writers == 1..NumWriters

\* What a step of one part leaves alone in the other parts.
ExecIdle == UNCHANGED <<flock, wpc, wloc, nrecords, recorded, cfg, scan, finder, amm,
                        botVars, clientVars>>
ScanIdle == UNCHANGED <<execution_lock, is_executing, last_execution_time, pc, opp, txs,
                        raised, result, file, flock, wpc, wloc, nrecords, recorded, cfg,
                        finder, amm, botVars, clientVars>>
LedgerIdle == UNCHANGED <<execution_lock, is_executing, last_execution_time, pc, opp,
                          txs, raised, result, cfg, scan, finder, amm, botVars, clientVars>>

----------------------------------------------------------------------------
(* ArbitrageOpportunity and ExecutionResult                                 *)

Opportunity(d, i, o, p) ==
    [direction |-> d, optimal_input |-> i, expected_output |-> o, estimated_profit |-> p]

NoOpportunity == [direction |-> "none", optimal_input |-> 0, expected_output |-> 0,
                  estimated_profit |-> 0]

\* The opportunities the callers pass in: a buy and a sell, as a scan returns them.
Opportunities == { Opportunity("buy", 2, 2, 2), Opportunity("sell", 3, 2, 1) }

\* transactions is the number of records in the list; caller is who got it.
ExecutionResult(t, s, o, n, e) ==
    [caller |-> {t}, success |-> s, opportunity |-> o, transactions |-> n, error_message |-> e]

NoResult == [caller |-> {}, success |-> FALSE, opportunity |-> NoOpportunity,
             transactions |-> 0, error_message |-> "no call yet"]

AlreadyRunning == "Executor is already running"

----------------------------------------------------------------------------
(* The profit ledger: update_cumulative_profit(profit_token_b_wei, price_b) *)

\* The content of profit.json: missing, empty (just truncated), a JSON record
\* holding cumulative_profit_wei, or bytes that do not parse.
FileMissing == [kind |-> "missing", total |-> 0]
FileEmpty == [kind |-> "empty", total |-> 0]
FileGarbage == [kind |-> "garbage", total |-> 0]
FileJson(n) == [kind |-> "json", total |-> n]

\* profit_usd_wei = (profit_token_b_wei * price_b) // WEI_SCALE
ProfitUsdWei(profit_token_b_wei, price_b) == (profit_token_b_wei * price_b) \div WEI_SCALE

\* USD prices of the quote token handed to a record call: 1.0 and 1.5.
QuotePrices == { WEI_SCALE, (3 * WEI_SCALE) \div 2 }

\* data is "loaded" once json.load has returned the record; synced is true
\* once os.fsync has returned for what this call wrote.
WriterIdle ==
    [profit_usd_wei |-> 0, cumulative_profit_wei |-> 0, data |-> "unset", synced |-> FALSE]

\* The call: the conversion of the profit, cumulative_profit_wei = 0.
Record(w) ==
    /\ wpc[w] = "idle"
    /\ nrecords < MaxRecords
    /\ \E p \in 1..MaxProfit, price_b \in QuotePrices :
          /\ wloc' = [wloc EXCEPT ![w] = [profit_usd_wei |-> ProfitUsdWei(p, price_b),
                                          cumulative_profit_wei |-> 0,
                                          data |-> "unset", synced |-> FALSE]]
          /\ recorded' = recorded + ProfitUsdWei(p, price_b)
    /\ wpc' = [wpc EXCEPT ![w] = "exists"]
    /\ nrecords' = nrecords + 1
    /\ UNCHANGED <<file, flock>>
    /\ LedgerIdle

\* Mutant: a missing file is an error, logged by the outer except: the call
\* returns without writing.
PathExistsMissingIsError(w) ==
    /\ wpc[w] = "exists"
    /\ IF file.kind # "missing"
       THEN /\ wpc' = [wpc EXCEPT ![w] = "lock_r"]
            /\ wloc' = wloc
       ELSE /\ wpc' = [wpc EXCEPT ![w] = "idle"]
            /\ wloc' = [wloc EXCEPT ![w] = WriterIdle]
    /\ UNCHANGED <<file, flock, nrecords, recorded>>
    /\ LedgerIdle

\* if os.path.exists(file_path): a missing file leaves the total at 0 and
\* goes on to cumulative_profit_wei += profit_usd_wei.
PathExists(w) ==
    /\ wpc[w] = "exists"
    /\ IF file.kind # "missing"
       THEN /\ wpc' = [wpc EXCEPT ![w] = "lock_r"]
            /\ wloc' = wloc
       ELSE /\ wpc' = [wpc EXCEPT ![w] = "open_w"]
            /\ wloc' = [wloc EXCEPT ![w].cumulative_profit_wei = wloc[w].profit_usd_wei]
    /\ UNCHANGED <<file, flock, nrecords, recorded>>
    /\ LedgerIdle

\* with open(file_path, 'r') as f: fcntl.flock(f.fileno(), fcntl.LOCK_EX)
\* blocks while another open file description holds the lock.
LockForRead(w) ==
    /\ wpc[w] = "lock_r"
    /\ flock = NoOne
    /\ flock' = {w}
    /\ wpc' = [wpc EXCEPT ![w] = "read"]
    /\ UNCHANGED <<file, wloc, nrecords, recorded>>
    /\ LedgerIdle

\* What a call that ended in the outer except leaves behind: the locals are
\* gone and logger.error has reported the failure.
WriterFailed == [WriterIdle EXCEPT !.data = "failure logged"]

\* Mutant: a file that does not parse counts as a total of 0 and the call
\* goes on to write.
ReadTotalRestartsFromZero(w) ==
    /\ wpc[w] = "read"
    /\ IF file.kind = "json"
       THEN /\ wloc' = [wloc EXCEPT ![w].cumulative_profit_wei = file.total,
                                     ![w].data = "loaded"]
            /\ wpc' = [wpc EXCEPT ![w] = "unlock_r"]
            /\ flock' = flock
       ELSE /\ wloc' = [wloc EXCEPT ![w].cumulative_profit_wei = 0]
            /\ wpc' = [wpc EXCEPT ![w] = "unlock_r"]
            /\ flock' = flock
    /\ UNCHANGED <<file, nrecords, recorded>>
    /\ LedgerIdle

\* data = json.load(f); cumulative_profit_wei = data.get(...).  A file that
\* does not parse raises: the finally unlocks, the outer except logs, and the
\* call returns without writing.
ReadTotal(w) ==
    /\ wpc[w] = "read"
    /\ IF file.kind = "json"
       THEN /\ wloc' = [wloc EXCEPT ![w].cumulative_profit_wei = file.total,
                                     ![w].data = "loaded"]
            /\ wpc' = [wpc EXCEPT ![w] = "unlock_r"]
            /\ flock' = flock
       ELSE /\ wloc' = [wloc EXCEPT ![w] = WriterFailed]
            /\ wpc' = [wpc EXCEPT ![w] = "idle"]
            /\ flock' = NoOne
    /\ UNCHANGED <<file, nrecords, recorded>>
    /\ LedgerIdle

\* finally: fcntl.flock(f.fileno(), fcntl.LOCK_UN); the file is closed;
\* cumulative_profit_wei += profit_usd_wei.
UnlockAfterRead(w) ==
    /\ wpc[w] = "unlock_r"
    /\ flock' = NoOne
    /\ wloc' = [wloc EXCEPT ![w].cumulative_profit_wei =
                               wloc[w].cumulative_profit_wei + wloc[w].profit_usd_wei]
    /\ wpc' = [wpc EXCEPT ![w] = "open_w"]
    /\ UNCHANGED <<file, nrecords, recorded>>
    /\ LedgerIdle

\* with open(file_path, 'w') as f: creates or truncates the file, before any
\* lock is asked for (an advisory lock does not stop the truncation).
OpenForWrite(w) ==
    /\ wpc[w] = "open_w"
    /\ file' = FileEmpty
    /\ wpc' = [wpc EXCEPT ![w] = "lock_w"]
    /\ UNCHANGED <<flock, wloc, nrecords, recorded>>
    /\ LedgerIdle

LockForWrite(w) ==
    /\ wpc[w] = "lock_w"
    /\ flock = NoOne
    /\ flock' = {w}
    /\ wpc' = [wpc EXCEPT ![w] = "write"]
    /\ UNCHANGED <<file, wloc, nrecords, recorded>>
    /\ LedgerIdle

\* What the file holds after this writer's text is written at offset 0.  Over
\* an empty file, or over the same text, it is the writer's record.  Over
\* another record (written by a writer since this one truncated the file) the
\* longer old text keeps its tail: the result parses or not depending on the
\* two lengths, which the model leaves open.
Written(old, n) ==
    IF old.kind \in {"empty", "missing"} \/ old = FileJson(n)
    THEN { FileJson(n) }
    ELSE { FileJson(n), FileGarbage }

\* Mutant: the record is written and flushed but os.fsync is left out.
WriteTotalNoSync(w) ==
    /\ wpc[w] = "write"
    /\ file' \in Written(file, wloc[w].cumulative_profit_wei)
    /\ wpc' = [wpc EXCEPT ![w] = "unlock_w"]
    /\ UNCHANGED <<flock, wloc, nrecords, recorded>>
    /\ LedgerIdle

\* json.dump(...); f.flush(); os.fsync(f.fileno()): the three statements of
\* the try block, which run before its finally.
WriteTotal(w) ==
    /\ wpc[w] = "write"
    /\ file' \in Written(file, wloc[w].cumulative_profit_wei)
    /\ wloc' = [wloc EXCEPT ![w].synced = TRUE]
    /\ wpc' = [wpc EXCEPT ![w] = "unlock_w"]
    /\ UNCHANGED <<flock, nrecords, recorded>>
    /\ LedgerIdle

\* finally: fcntl.flock(f.fileno(), fcntl.LOCK_UN); the call returns.
UnlockAfterWrite(w) ==
    /\ wpc[w] = "unlock_w"
    /\ flock' = NoOne
    /\ wloc' = [wloc EXCEPT ![w] = WriterIdle]
    /\ wpc' = [wpc EXCEPT ![w] = "idle"]
    /\ UNCHANGED <<file, nrecords, recorded>>
    /\ LedgerIdle

\* The file after one update_cumulative_profit call that runs alone.
LedgerAfter(f, profit_usd_wei) ==
    CASE f.kind = "missing" -> FileJson(profit_usd_wei)
      [] f.kind = "json" -> FileJson(f.total + profit_usd_wei)
      [] OTHER -> f

----------------------------------------------------------------------------
(* ArbitrageExecutor.execute_opportunity                                    *)

\* update_cumulative_profit takes profit_token_b_wei and price_b without
\* defaults (and file_path with one); execute_opportunity calls it with the
\* estimated profit alone.  A call that does not bind its parameters raises
\* TypeError before the body runs.
LedgerRequiredArgs == 2
LedgerMaxArgs == 3
LedgerArgsSupplied == 1
CallBinds(n) == LedgerRequiredArgs <= n /\ n <= LedgerMaxArgs

\* The USD price of the quote token a bound call would convert with.
QuoteUsdPrice == (3 * WEI_SCALE) \div 2

\* execute_opportunity(opportunity) is called.
Call(t) ==
    /\ pc[t] = "idle"
    /\ last_execution_time < MaxTime
    /\ \E o \in Opportunities : opp' = [opp EXCEPT ![t] = o]
    /\ txs' = [txs EXCEPT ![t] = 0]
    /\ raised' = [raised EXCEPT ![t] = NoError]
    /\ pc' = [pc EXCEPT ![t] = "acquire"]
    /\ UNCHANGED <<execution_lock, is_executing, last_execution_time, result, file>>
    /\ ExecIdle

\* Mutant: the lock is taken without waiting for its holder to release it.
AcquireNoMutex(t) ==
    /\ pc[t] = "acquire"
    /\ execution_lock' = execution_lock \cup {t}
    /\ pc' = [pc EXCEPT ![t] = "check"]
    /\ UNCHANGED <<is_executing, last_execution_time, opp, txs, raised, result, file>>
    /\ ExecIdle

\* with self._execution_lock: blocks while another caller holds the lock.
Acquire(t) ==
    /\ pc[t] = "acquire"
    /\ execution_lock = NoOne
    /\ execution_lock' = {t}
    /\ pc' = [pc EXCEPT ![t] = "check"]
    /\ UNCHANGED <<is_executing, last_execution_time, opp, txs, raised, result, file>>
    /\ ExecIdle

\* Mutant: the flag is not looked at; every caller goes on to set it.
GuardCheckProceeds(t) ==
    /\ pc[t] = "check"
    /\ pc' = [pc EXCEPT ![t] = "set"]
    /\ UNCHANGED <<is_executing, last_execution_time, opp, txs, raised, result,
                   execution_lock, file>>
    /\ ExecIdle

\* Mutant: the busy return runs the cleanup of an execution and clears the
\* flag of the execution in progress.
GuardCheckBusyClears(t) ==
    /\ pc[t] = "check"
    /\ IF is_executing
       THEN /\ result' = ExecutionResult(t, FALSE, opp[t], 0, AlreadyRunning)
            /\ pc' = [pc EXCEPT ![t] = "idle"]
            /\ execution_lock' = execution_lock \ {t}
            /\ opp' = [opp EXCEPT ![t] = NoOpportunity]
            /\ is_executing' = FALSE
       ELSE /\ pc' = [pc EXCEPT ![t] = "set"]
            /\ UNCHANGED <<result, execution_lock, opp, is_executing>>
    /\ UNCHANGED <<last_execution_time, txs, raised, file>>
    /\ ExecIdle

\* if self.is_executing: return ExecutionResult(success=False, ...,
\* transactions=[], error_message="Executor is already running"); the return
\* leaves the with block and releases the lock.
GuardCheck(t) ==
    /\ pc[t] = "check"
    /\ IF is_executing
       THEN /\ result' = ExecutionResult(t, FALSE, opp[t], 0, AlreadyRunning)
            /\ pc' = [pc EXCEPT ![t] = "idle"]
            /\ execution_lock' = execution_lock \ {t}
            /\ opp' = [opp EXCEPT ![t] = NoOpportunity]
       ELSE /\ pc' = [pc EXCEPT ![t] = "set"]
            /\ UNCHANGED <<result, execution_lock, opp>>
    /\ UNCHANGED <<is_executing, last_execution_time, txs, raised, file>>
    /\ ExecIdle

\* self.is_executing = True; the with block ends and releases the lock.
GuardSet(t) ==
    /\ pc[t] = "set"
    /\ is_executing' = TRUE
    /\ execution_lock' = execution_lock \ {t}
    /\ pc' = [pc EXCEPT ![t] = "swap"]
    /\ UNCHANGED <<last_execution_time, opp, txs, raised, result, file>>
    /\ ExecIdle

\* swap_hash = self.pool.swap(...): the submission returns a hash, which is
\* appended to transactions, or raises.
Swap(t) ==
    /\ pc[t] = "swap"
    /\ \/ /\ txs' = [txs EXCEPT ![t] = 1]
          /\ pc' = [pc EXCEPT ![t] = "wait"]
          /\ raised' = raised
       \/ /\ raised' = [raised EXCEPT ![t] = "Transaction submission failed"]
          /\ pc' = [pc EXCEPT ![t] = "finally"]
          /\ txs' = txs
    /\ UNCHANGED <<execution_lock, is_executing, last_execution_time, opp, result, file>>
    /\ ExecIdle

\* Mutant: TimeoutError is not caught by the except clause: the finally runs
\* and the exception leaves execute_opportunity, which returns no result.
WaitTimeoutEscapes(t) ==
    /\ pc[t] = "wait"
    /\ \/ /\ pc' = [pc EXCEPT ![t] = "ledger"]
          /\ UNCHANGED <<raised, is_executing, opp, txs>>
       \/ /\ raised' = [raised EXCEPT ![t] = "Transaction failed"]
          /\ pc' = [pc EXCEPT ![t] = "finally"]
          /\ UNCHANGED <<is_executing, opp, txs>>
       \/ /\ pc' = [pc EXCEPT ![t] = "idle"]
          /\ is_executing' = FALSE
          /\ opp' = [opp EXCEPT ![t] = NoOpportunity]
          /\ txs' = [txs EXCEPT ![t] = 0]
          /\ raised' = raised
    /\ UNCHANGED <<execution_lock, last_execution_time, result, file>>
    /\ ExecIdle

\* Mutant: the profit is recorded as soon as the swap is submitted, so an
\* unconfirmed swap is in the ledger too.
WaitRecordsUnconfirmed(t) ==
    /\ pc[t] = "wait"
    /\ \/ /\ pc' = [pc EXCEPT ![t] = "ledger"]
          /\ raised' = raised
          /\ file' = file
       \/ /\ \E e \in {"Transaction failed", "Transaction timeout"} :
                raised' = [raised EXCEPT ![t] = e]
          /\ pc' = [pc EXCEPT ![t] = "finally"]
          /\ file' = LedgerAfter(file, ProfitUsdWei(opp[t].estimated_profit, QuoteUsdPrice))
    /\ UNCHANGED <<execution_lock, is_executing, last_execution_time, opp, txs, result>>
    /\ ExecIdle

\* client.wait_for_transaction(swap_hash): returns on status Success, raises
\* on status Failed/Failure and on the timeout.
Wait(t) ==
    /\ pc[t] = "wait"
    /\ \/ /\ pc' = [pc EXCEPT ![t] = "ledger"]
          /\ raised' = raised
       \/ /\ \E e \in {"Transaction failed", "Transaction timeout"} :
                raised' = [raised EXCEPT ![t] = e]
          /\ pc' = [pc EXCEPT ![t] = "finally"]
    /\ UNCHANGED <<execution_lock, is_executing, last_execution_time, opp, txs, result, file>>
    /\ ExecIdle

\* update_cumulative_profit(opportunity.estimated_profit): a call that binds
\* runs the ledger update and execute_opportunity goes on to return
\* success=True; a call that does not bind raises TypeError, caught by
\* except Exception.
UpdateLedger(t) ==
    /\ pc[t] = "ledger"
    /\ IF CallBinds(LedgerArgsSupplied)
       THEN /\ file' = LedgerAfter(file, ProfitUsdWei(opp[t].estimated_profit, QuoteUsdPrice))
            /\ raised' = raised
       ELSE /\ raised' = [raised EXCEPT ![t] = "TypeError: missing argument price_b"]
            /\ file' = file
    /\ pc' = [pc EXCEPT ![t] = "finally"]
    /\ UNCHANGED <<execution_lock, is_executing, last_execution_time, opp, txs, result>>
    /\ ExecIdle

\* finally: with self._execution_lock: (blocks while the lock is held)
Finally(t) ==
    /\ pc[t] = "finally"
    /\ execution_lock = NoOne
    /\ execution_lock' = {t}
    /\ pc' = [pc EXCEPT ![t] = "clear"]
    /\ UNCHANGED <<is_executing, last_execution_time, opp, txs, raised, result, file>>
    /\ ExecIdle

\* Mutant: the flag is cleared at the end of the try block instead of in a
\* finally, so a call that raised returns with the flag still set.
ClearOnSuccessOnly(t) ==
    /\ pc[t] = "clear"
    /\ is_executing' = (raised[t] # NoError)
    /\ execution_lock' = execution_lock \ {t}
    /\ last_execution_time' = last_execution_time + 1
    /\ result' = ExecutionResult(t, raised[t] = NoError, opp[t], txs[t],
                                 IF raised[t] = NoError THEN "" ELSE raised[t])
    /\ pc' = [pc EXCEPT ![t] = "idle"]
    /\ opp' = [opp EXCEPT ![t] = NoOpportunity]
    /\ txs' = [txs EXCEPT ![t] = 0]
    /\ raised' = [raised EXCEPT ![t] = NoError]
    /\ file' = file
    /\ ExecIdle

\* self.is_executing = False; the lock is released;
\* self.last_execution_time = time.time(); the pending return completes:
\* success=True from the try block, success=False with the message of the
\* exception from the except block.  The locals of the call are gone.
Clear(t) ==
    /\ pc[t] = "clear"
    /\ is_executing' = FALSE
    /\ execution_lock' = execution_lock \ {t}
    /\ last_execution_time' = last_execution_time + 1
    /\ result' = ExecutionResult(t, raised[t] = NoError, opp[t], txs[t],
                                 IF raised[t] = NoError THEN "" ELSE raised[t])
    /\ pc' = [pc EXCEPT ![t] = "idle"]
    /\ opp' = [opp EXCEPT ![t] = NoOpportunity]
    /\ txs' = [txs EXCEPT ![t] = 0]
    /\ raised' = [raised EXCEPT ![t] = NoError]
    /\ file' = file
    /\ ExecIdle

----------------------------------------------------------------------------
(* Fixed-point arithmetic: src/core/math_utils.py                           *)

Min(a, b) == IF a <= b THEN a ELSE b
Max(a, b) == IF a >= b THEN a ELSE b

\* math.isqrt(n) for n >= 0: the floor of the square root, found by bisection
\* between lo and hi with lo * lo <= n < hi * hi (mid * mid <= n is written
\* mid <= n \div mid, which is the same for mid >= 1).
RECURSIVE IsqrtBetween(_, _, _)
IsqrtBetween(n, lo, hi) ==
    IF hi - lo <= 1 THEN lo
    ELSE LET mid == (lo + hi) \div 2
         IN  IF mid <= n \div mid THEN IsqrtBetween(n, mid, hi) ELSE IsqrtBetween(n, lo, mid)
Isqrt(n) == IsqrtBetween(n, 0, n + 1)

\* Mutant: the target reserve is the square root rounded up, one unit past
\* the floor.
get_optimal_input_target_rounded_up(reserve_in, reserve_out, market_price_scaled, fee_basis_points) ==
    LET k == reserve_in * reserve_out
        x_target == Isqrt((k * WEI_SCALE) \div market_price_scaled) + 1
    IN  IF x_target <= reserve_in
        THEN 0
        ELSE ((x_target - reserve_in) * BPS_DENOM) \div (BPS_DENOM - fee_basis_points)

\* get_optimal_input(reserve_in, reserve_out, market_price_scaled,
\* fee_basis_points); the caller has checked reserves > 0 and 0 <= fee <
\* BPS_DENOM.  A market_price_scaled of 0 is a division by zero, which the
\* callers below meet before they call.
get_optimal_input(reserve_in, reserve_out, market_price_scaled, fee_basis_points) ==
    LET k == reserve_in * reserve_out
        x_target == Isqrt((k * WEI_SCALE) \div market_price_scaled)
    IN  IF x_target <= reserve_in
        THEN 0
        ELSE ((x_target - reserve_in) * BPS_DENOM) \div (BPS_DENOM - fee_basis_points)

\* Mutant: the denominator is the effective input alone, without reserve_x.
get_output_amount_no_reserve_x(dx, reserve_x, reserve_y, fee_bps) ==
    IF dx <= 0 \/ reserve_x <= 0 \/ reserve_y <= 0 \/ fee_bps < 0 \/ fee_bps >= BPS_DENOM
    THEN 0
    ELSE LET dx_eff == (dx * (BPS_DENOM - fee_bps)) \div BPS_DENOM
         IN  IF dx_eff <= 0 THEN 0 ELSE (reserve_y * dx_eff) \div dx_eff

\* Mutant: a fee below 0 is not turned down.
get_output_amount_negative_fee(dx, reserve_x, reserve_y, fee_bps) ==
    IF dx <= 0 \/ reserve_x <= 0 \/ reserve_y <= 0 \/ fee_bps >= BPS_DENOM
    THEN 0
    ELSE LET dx_eff == (dx * (BPS_DENOM - fee_bps)) \div BPS_DENOM
         IN  IF dx_eff <= 0 THEN 0 ELSE (reserve_y * dx_eff) \div (reserve_x + dx_eff)

\* Mutant: the output is rounded up instead of floored.
get_output_amount_rounded_up(dx, reserve_x, reserve_y, fee_bps) ==
    IF dx <= 0 \/ reserve_x <= 0 \/ reserve_y <= 0 \/ fee_bps < 0 \/ fee_bps >= BPS_DENOM
    THEN 0
    ELSE LET dx_eff == (dx * (BPS_DENOM - fee_bps)) \div BPS_DENOM
         IN  IF dx_eff <= 0 THEN 0
             ELSE (reserve_y * dx_eff + reserve_x + dx_eff - 1) \div (reserve_x + dx_eff)

get_output_amount(dx, reserve_x, reserve_y, fee_bps) ==
    IF dx <= 0 \/ reserve_x <= 0 \/ reserve_y <= 0 \/ fee_bps < 0 \/ fee_bps >= BPS_DENOM
    THEN 0
    ELSE LET dx_eff == (dx * (BPS_DENOM - fee_bps)) \div BPS_DENOM
         IN  IF dx_eff <= 0 THEN 0 ELSE (reserve_y * dx_eff) \div (reserve_x + dx_eff)

\* calculate_buy_profit: buying token A with token B,
\* profit_B = (A_out * oracle_price) // WEI_SCALE - B_in
calculate_buy_profit(input_amount, reserve_in, reserve_out, oracle_price, fee_bps) ==
    (get_output_amount(input_amount, reserve_in, reserve_out, fee_bps) * oracle_price)
        \div WEI_SCALE - input_amount

\* calculate_sell_profit: selling token A for token B,
\* profit_B = B_out - (A_in * oracle_price) // WEI_SCALE
calculate_sell_profit(input_amount, reserve_in, reserve_out, oracle_price, fee_bps) ==
    get_output_amount(input_amount, reserve_in, reserve_out, fee_bps)
        - (input_amount * oracle_price) \div WEI_SCALE

\* What find_optimal_trade_auto hands back: (reason, None), (None, (side,
\* amount_in, expected_out, profit)), or an exception.
Rejected(why) == [kind |-> "reason", reason |-> why, side |-> "none",
                  amount_in |-> 0, expected_out |-> 0, profit |-> 0]
Trade(side, amount_in, expected_out, profit) ==
    [kind |-> "trade", reason |-> "none", side |-> side,
     amount_in |-> amount_in, expected_out |-> expected_out, profit |-> profit]
Raises(what) == [kind |-> "raise", reason |-> what, side |-> "none",
                 amount_in |-> 0, expected_out |-> 0, profit |-> 0]

\* Mutant: the optimal input is not clipped to the balance.
ClipToBalanceUnclipped(d_opt, balance) == IF d_opt > 0 /\ balance > 0 THEN d_opt ELSE 0

\* dy = min(dy_opt, balance_y) if dy_opt > 0 and balance_y > 0 else 0
ClipToBalance(d_opt, balance) == IF d_opt > 0 /\ balance > 0 THEN Min(d_opt, balance) ELSE 0

\* Mutant: the optimal input is solved against the oracle price itself
\* instead of its inverse P_yx.
TradeYXPriceNotInverted(reserve_x, reserve_y, oracle_price_xy, balance_y, fee_bps, min_profit) ==
    LET dy_opt == get_optimal_input(reserve_y, reserve_x, oracle_price_xy, fee_bps)
        dy == IF dy_opt > 0 /\ balance_y > 0 THEN Min(dy_opt, balance_y) ELSE 0
        x_out == get_output_amount(dy, reserve_y, reserve_x, fee_bps)
        profit_y == (x_out * oracle_price_xy) \div WEI_SCALE - dy
    IN  IF dy <= 0 THEN Rejected("No input available for Y->X")
        ELSE IF x_out <= 0 THEN Rejected("No output for Y->X")
        ELSE IF profit_y > 0 /\ profit_y >= min_profit
             THEN Trade("Y->X", dy, x_out, profit_y)
             ELSE Rejected("Profit too low for Y->X")

\* Mutant: the profit is compared with min_profit alone, so that a zero or
\* negative threshold lets a trade without profit through.
TradeYXThresholdOnly(reserve_x, reserve_y, oracle_price_xy, balance_y, fee_bps, min_profit) ==
    LET P_yx == (WEI_SCALE * WEI_SCALE) \div oracle_price_xy
        dy_opt == get_optimal_input(reserve_y, reserve_x, P_yx, fee_bps)
        dy == IF dy_opt > 0 /\ balance_y > 0 THEN Min(dy_opt, balance_y) ELSE 0
        x_out == get_output_amount(dy, reserve_y, reserve_x, fee_bps)
        profit_y == (x_out * oracle_price_xy) \div WEI_SCALE - dy
    IN  IF dy <= 0 THEN Rejected("No input available for Y->X")
        ELSE IF x_out <= 0 THEN Rejected("No output for Y->X")
        ELSE IF profit_y >= min_profit
             THEN Trade("Y->X", dy, x_out, profit_y)
             ELSE Rejected("Profit too low for Y->X")

\* The Y->X branch: the pool underprices X, buy X with Y.
TradeYX(reserve_x, reserve_y, oracle_price_xy, balance_y, fee_bps, min_profit) ==
    LET P_yx == (WEI_SCALE * WEI_SCALE) \div oracle_price_xy
    IN  IF P_yx = 0 THEN Raises("ZeroDivisionError") ELSE
        LET dy_opt == get_optimal_input(reserve_y, reserve_x, P_yx, fee_bps)
            dy == ClipToBalance(dy_opt, balance_y)
            x_out == get_output_amount(dy, reserve_y, reserve_x, fee_bps)
            profit_y == (x_out * oracle_price_xy) \div WEI_SCALE - dy
        IN  IF dy <= 0 THEN Rejected("No input available for Y->X")
            ELSE IF x_out <= 0 THEN Rejected("No output for Y->X")
            ELSE IF profit_y > 0 /\ profit_y >= min_profit
                 THEN Trade("Y->X", dy, x_out, profit_y)
                 ELSE Rejected("Profit too low for Y->X")

\* The X->Y branch: the pool overprices X, sell X for Y.
TradeXY(reserve_x, reserve_y, oracle_price_xy, balance_x, fee_bps, min_profit) ==
    LET dx_opt == get_optimal_input(reserve_x, reserve_y, oracle_price_xy, fee_bps)
        dx == ClipToBalance(dx_opt, balance_x)
        y_out == get_output_amount(dx, reserve_x, reserve_y, fee_bps)
        profit_y == y_out - (dx * oracle_price_xy) \div WEI_SCALE
    IN  IF dx <= 0 THEN Rejected("No input available for X->Y")
        ELSE IF y_out <= 0 THEN Rejected("No output for X->Y")
        ELSE IF profit_y > 0 /\ profit_y >= min_profit
             THEN Trade("X->Y", dx, y_out, profit_y)
             ELSE Rejected("Profit too low for X->Y")

\* Mutant: a pool price equal to the oracle price is taken into the Y->X
\* branch (<= for <).
find_optimal_trade_auto_equal_buys(reserve_x, reserve_y, oracle_price_xy, balance_x, balance_y, fee_bps, min_profit) ==
    IF reserve_x <= 0 \/ reserve_y <= 0 \/ oracle_price_xy <= 0
    THEN Rejected("Invalid inputs")
    ELSE IF balance_x <= 0 /\ balance_y <= 0
    THEN Rejected("No balances")
    ELSE IF ~(0 <= fee_bps /\ fee_bps < BPS_DENOM)
    THEN Rejected("Invalid fee_bps")
    ELSE LET P_pool_xy == (reserve_y * WEI_SCALE) \div reserve_x
         IN  IF P_pool_xy <= oracle_price_xy
             THEN TradeYX(reserve_x, reserve_y, oracle_price_xy, balance_y, fee_bps, min_profit)
             ELSE TradeXY(reserve_x, reserve_y, oracle_price_xy, balance_x, fee_bps, min_profit)

\* Mutant: reserve_x is not validated.  P_pool_xy divides by it, which raises
\* ZeroDivisionError at 0; below 0 the pool price is negative, the Y->X
\* branch is taken and math.isqrt raises ValueError on the negative product.
find_optimal_trade_auto_reserve_x_unchecked(reserve_x, reserve_y, oracle_price_xy, balance_x, balance_y, fee_bps, min_profit) ==
    IF reserve_y <= 0 \/ oracle_price_xy <= 0
    THEN Rejected("Invalid inputs")
    ELSE IF balance_x <= 0 /\ balance_y <= 0
    THEN Rejected("No balances")
    ELSE IF ~(0 <= fee_bps /\ fee_bps < BPS_DENOM)
    THEN Rejected("Invalid fee_bps")
    ELSE IF reserve_x = 0
    THEN Raises("ZeroDivisionError")
    ELSE IF reserve_x < 0
    THEN Raises("ValueError")
    ELSE LET P_pool_xy == (reserve_y * WEI_SCALE) \div reserve_x
         IN  IF P_pool_xy < oracle_price_xy
             THEN TradeYX(reserve_x, reserve_y, oracle_price_xy, balance_y, fee_bps, min_profit)
             ELSE IF P_pool_xy > oracle_price_xy
             THEN TradeXY(reserve_x, reserve_y, oracle_price_xy, balance_x, fee_bps, min_profit)
             ELSE Rejected("Pool price equals oracle price")

find_optimal_trade_auto(reserve_x, reserve_y, oracle_price_xy, balance_x, balance_y, fee_bps, min_profit) ==
    IF reserve_x <= 0 \/ reserve_y <= 0 \/ oracle_price_xy <= 0
    THEN Rejected("Invalid inputs")
    ELSE IF balance_x <= 0 /\ balance_y <= 0
    THEN Rejected("No balances")
    ELSE IF ~(0 <= fee_bps /\ fee_bps < BPS_DENOM)
    THEN Rejected("Invalid fee_bps")
    ELSE LET P_pool_xy == (reserve_y * WEI_SCALE) \div reserve_x
         IN  IF P_pool_xy < oracle_price_xy
             THEN TradeYX(reserve_x, reserve_y, oracle_price_xy, balance_y, fee_bps, min_profit)
             ELSE IF P_pool_xy > oracle_price_xy
             THEN TradeXY(reserve_x, reserve_y, oracle_price_xy, balance_x, fee_bps, min_profit)
             ELSE Rejected("Pool price equals oracle price")

----------------------------------------------------------------------------
(* Scan guards: src/engine/helpers.py                                       *)

\* min_usdst_for_gas = WEI_SCALE // 100  (0.01 USDST)
min_usdst_for_gas == WEI_SCALE \div 100

\* Mutant: a wallet without gas is handed its balance all the same.
check_gas_balance_no_gas_check(token_in, amount_in, gas) ==
    IF token_in.is_usdst
    THEN Max(0, token_in.balance - min_usdst_for_gas)
    ELSE amount_in

\* Mutant: nothing is kept back for gas when the token is USDST.
check_gas_balance_no_reserve(token_in, amount_in, gas) ==
    IF ~(gas.voucher >= WEI_SCALE) /\ ~(gas.usdst >= min_usdst_for_gas)
    THEN 0
    ELSE amount_in

\* check_gas_balance(token_in, amount_in); gas is what client.get_balance
\* returned: (usdst_balance, voucher_balance).  token_in.is_usdst stands for
\* token_in.address.lower() == USDST_ADDRESS.lower().
check_gas_balance(token_in, amount_in, gas) ==
    IF ~(gas.voucher >= WEI_SCALE) /\ ~(gas.usdst >= min_usdst_for_gas)
    THEN 0
    ELSE IF token_in.is_usdst
         THEN Max(0, token_in.balance - min_usdst_for_gas)
         ELSE amount_in

\* check_sell_pnl(pool, token_address, opportunity); avg_cost_wei is what
\* pool.get_position_data(token_address) returns.
check_sell_pnl(avg_cost_wei, opportunity) ==
    IF opportunity.direction # "sell" THEN TRUE
    ELSE IF opportunity.optimal_input <= 0 THEN FALSE
    ELSE IF avg_cost_wei <= 0 THEN TRUE
    ELSE (opportunity.expected_output * WEI_SCALE) \div opportunity.optimal_input
            > avg_cost_wei

----------------------------------------------------------------------------
(* ArbitrageExecutor.scan_for_opportunity                                   *)

\* What the collaborators answer to one scan.
Reserves == 0..MaxReserve
Balances == 0..MaxBalance
\* A price reply of the oracle: no price for the symbol, or a price.
NoPrice == [found |-> FALSE, price |-> 0]
Price(p) == [found |-> TRUE, price |-> p]
PriceReplies == { NoPrice, Price(0), Price(WEI_SCALE), Price(2 * WEI_SCALE) }
\* USDST is priced at USDST_PRICE_WEI = WEI_SCALE without a fetch.
PriceRepliesOf(is_usdst) == IF is_usdst THEN { Price(WEI_SCALE) } ELSE PriceReplies
\* get_balance: the USDST balance around the gas minimum, the voucher balance
\* below or at one unit.
GasReplies == [usdst : 0..min_usdst_for_gas, voucher : {0, WEI_SCALE}]
NoGasReply == [usdst |-> 0, voucher |-> 0]
\* The wallet's weighted-average buy cost of token A, in USDST per token
\* (get_position_data): unknown, or 2.0.  It is computed from the wallet's
\* swaps of USDST into the token in this pool, so it is known only where
\* token B is USDST.
AvgCosts == { 0, 2 * WEI_SCALE }
AvgCostsOf(side) == IF side = "b" THEN AvgCosts ELSE { 0 }
\* Which token of the pool is USDST.
UsdstSides == { "a", "b", "none" }

\* stage is how far the scan got: "pool" (fetch_pool_data raised), "reserves",
\* "prices" and "balances" (the validation that returned None), "finder".
ScanRecord(stage, ra, rb, ba, bb, side, pa, pb, ga, gb, sa, sb, cost, res) ==
    [phase |-> "done", stage |-> stage,
     reserve_a |-> ra, reserve_b |-> rb, balance_a |-> ba, balance_b |-> bb,
     usdst_side |-> side, price_a |-> pa, price_b |-> pb, gas_a |-> ga, gas_b |-> gb,
     spendable_a |-> sa, spendable_b |-> sb, avg_cost |-> cost, result |-> res]

NoScan == ScanRecord("pool", 0, 0, 0, 0, "none", NoPrice, NoPrice, NoGasReply, NoGasReply,
                     0, 0, 0, NoOpportunity)

\* direction = "sell" if side == "X->Y" else "buy"
OpportunityOf(found) ==
    IF found.kind = "trade"
    THEN Opportunity(IF found.side = "X->Y" THEN "sell" ELSE "buy",
                     found.amount_in, found.expected_out, found.profit)
    ELSE NoOpportunity

\* Mutant: a price the oracle did not return is taken to be 1.0 instead of
\* raising ValueError.
ScanForOpportunityDefaultPrice ==
    /\ scan.phase = "idle"
    /\ ScanIdle
    /\ \/ scan' = NoScan
       \/ \E ra, rb \in Reserves, ba, bb \in Balances, side \in UsdstSides :
          \E cost \in AvgCostsOf(side) :
            LET early == ScanRecord("reserves", ra, rb, ba, bb, side, NoPrice, NoPrice,
                                    NoGasReply, NoGasReply, 0, 0, cost, NoOpportunity)
            IN
            IF ra <= 0 \/ rb <= 0
            THEN scan' = early
            ELSE \E pa \in PriceRepliesOf(side = "a"), pb \in PriceRepliesOf(side = "b") :
               LET priced == [early EXCEPT !.price_a = pa, !.price_b = pb,
                                           !.stage = "prices"]
                   price_a == IF pa.found THEN pa.price ELSE WEI_SCALE
                   price_b == IF pb.found THEN pb.price ELSE WEI_SCALE
                   oracle_price == (price_a * WEI_SCALE) \div price_b
               IN
               IF price_b <= 0
               THEN scan' = priced
               ELSE IF oracle_price <= 0
               THEN scan' = priced
               ELSE IF ba <= 0 /\ bb <= 0
               THEN scan' = [priced EXCEPT !.stage = "balances"]
               ELSE \E ga, gb \in GasReplies :
                  LET sa == check_gas_balance([is_usdst |-> side = "a", balance |-> ba], ba, ga)
                      sb == check_gas_balance([is_usdst |-> side = "b", balance |-> bb], bb, gb)
                      found == find_optimal_trade_auto(ra, rb, oracle_price, sa, sb,
                                                       cfg.fee_bps, cfg.min_profit)
                  IN  scan' = [priced EXCEPT !.stage = "finder",
                                             !.gas_a = ga, !.gas_b = gb,
                                             !.spendable_a = sa, !.spendable_b = sb,
                                             !.result = OpportunityOf(found)]

\* One scan: the pool fetch (reserves and wallet balances), the two oracle
\* prices, then find_optimal_trade_auto on the gas-adjusted balances.  What
\* the scan did not get to fetch stays at its default in the record.
ScanForOpportunity ==
    /\ scan.phase = "idle"
    /\ ScanIdle
    /\ \/ \* fetch_pool_data raises: caught by except Exception, None
          scan' = NoScan
       \/ \E ra, rb \in Reserves, ba, bb \in Balances, side \in UsdstSides :
          \E cost \in AvgCostsOf(side) :
            LET early == ScanRecord("reserves", ra, rb, ba, bb, side, NoPrice, NoPrice,
                                    NoGasReply, NoGasReply, 0, 0, cost, NoOpportunity)
            IN
            IF ra <= 0 \/ rb <= 0
            THEN scan' = early
            ELSE \E pa \in PriceRepliesOf(side = "a"), pb \in PriceRepliesOf(side = "b") :
               LET priced == [early EXCEPT !.price_a = pa, !.price_b = pb,
                                           !.stage = "prices"]
                   oracle_price == (pa.price * WEI_SCALE) \div pb.price
               IN
               IF ~pa.found \/ ~pb.found     \* fetch_token_prices raises ValueError
               THEN scan' = priced
               ELSE IF pb.price <= 0
               THEN scan' = priced
               ELSE IF oracle_price <= 0
               THEN scan' = priced
               ELSE IF ba <= 0 /\ bb <= 0
               THEN scan' = [priced EXCEPT !.stage = "balances"]
               ELSE \E ga, gb \in GasReplies :
                  LET sa == check_gas_balance([is_usdst |-> side = "a", balance |-> ba], ba, ga)
                      sb == check_gas_balance([is_usdst |-> side = "b", balance |-> bb], bb, gb)
                      found == find_optimal_trade_auto(ra, rb, oracle_price, sa, sb,
                                                       cfg.fee_bps, cfg.min_profit)
                  IN  scan' = [priced EXCEPT !.stage = "finder",
                                             !.gas_a = ga, !.gas_b = gb,
                                             !.spendable_a = sa, !.spendable_b = sb,
                                             !.result = OpportunityOf(found)]

\* The scan has returned; the polling loop comes round to the next scan.
NextCycle ==
    /\ scan.phase = "done"
    /\ scan' = [phase |-> "idle"]
    /\ ScanIdle

ScanNext == ScanForOpportunity \/ NextCycle

----------------------------------------------------------------------------
(* find_optimal_trade_auto applied to arbitrary arguments                   *)

MaxFinderReserve == 6
MaxFinderBalance == 4

\* Every combination of small arguments, the invalid ones included: a
\* reserve, a price or a balance that is negative or 0, a fee below 0 or at
\* BPS_DENOM, a threshold that is negative or 0.
SmallFinderArgs ==
    [reserve_x : (0 - 1)..MaxFinderReserve, reserve_y : (0 - 1)..MaxFinderReserve,
     oracle_price_xy : {0 - WEI_SCALE, 0, WEI_SCALE \div 2, WEI_SCALE, 2 * WEI_SCALE},
     balance_x : (0 - 1)..MaxFinderBalance, balance_y : (0 - 1)..MaxFinderBalance,
     fee_bps : {0 - 1, 0, 30, BPS_DENOM}, min_profit : {0 - 1, 0, 1, 2}]

\* Pools of 10 and 45 units a side against oracle prices of 1.05 and 1.5,
\* with fees of 0, 0.3% and 30% and thresholds of one wei and one unit.
LargeFinderArgs ==
    [reserve_x : {10 * WEI_SCALE, 45 * WEI_SCALE},
     reserve_y : {10 * WEI_SCALE, 45 * WEI_SCALE},
     oracle_price_xy : {(105 * WEI_SCALE) \div 100, (3 * WEI_SCALE) \div 2},
     balance_x : {0, 45 * WEI_SCALE},
     balance_y : {0, 10 * WEI_SCALE, 45 * WEI_SCALE},
     fee_bps : {0, 30, 3000}, min_profit : {1, WEI_SCALE}]

\* Pools of equal reserves, from 1 unit a side to MaxPoolUnits, against an
\* oracle price of 1.05 at a fee of 0.3%, the wallet holding no X and as much
\* Y as the pool; thresholds of one wei and one unit.
MaxPoolUnits == 45
EqualPoolArgs ==
    { [reserve_x |-> u * WEI_SCALE, reserve_y |-> u * WEI_SCALE,
       oracle_price_xy |-> (105 * WEI_SCALE) \div 100,
       balance_x |-> 0, balance_y |-> u * WEI_SCALE,
       fee_bps |-> 30, min_profit |-> m] : u \in 1..MaxPoolUnits, m \in {1, WEI_SCALE} }

FinderArgs == SmallFinderArgs \cup LargeFinderArgs \cup EqualPoolArgs

\* The call with the arguments drawn initially.
FindTrade ==
    /\ finder.phase = "args"
    /\ UNCHANGED <<execution_lock, is_executing, last_execution_time, pc, opp, txs, raised,
                   result, file, flock, wpc, wloc, nrecords, recorded, cfg, scan, amm,
                   botVars, clientVars>>
    /\ LET a == finder.args
       IN  finder' = [phase |-> "done", args |-> a,
                      found |-> find_optimal_trade_auto(a.reserve_x, a.reserve_y,
                                   a.oracle_price_xy, a.balance_x, a.balance_y,
                                   a.fee_bps, a.min_profit)]

FinderNext == FindTrade

\* The arguments of repeated calls: the large pools with a wallet that holds
\* both tokens, at fees of 0 and 0.3%.
RepeatedFinderArgs ==
    { a \in LargeFinderArgs :
        a.balance_x > 0 /\ a.balance_y = 45 * WEI_SCALE /\ a.fee_bps \in {0, 30} }

\* The first call of a sequence of calls: its arguments and what it returned.
FirstCall == [args |-> finder.args, found |-> finder.found]

\* Mutant: the result of the last call is kept in a module variable and is
\* returned again when the next call is about the same pool.
FindTradeAgainMemoByPool ==
    /\ finder.phase \in {"done", "again"}
    /\ UNCHANGED <<execution_lock, is_executing, last_execution_time, pc, opp, txs, raised,
                   result, file, flock, wpc, wloc, nrecords, recorded, cfg, scan, amm,
                   botVars, clientVars>>
    /\ \E a \in RepeatedFinderArgs :
          finder' = [phase |-> "again", args |-> a,
                     found |-> IF a.reserve_x = finder.args.reserve_x
                                  /\ a.reserve_y = finder.args.reserve_y
                               THEN finder.found
                               ELSE find_optimal_trade_auto(a.reserve_x, a.reserve_y,
                                        a.oracle_price_xy, a.balance_x, a.balance_y,
                                        a.fee_bps, a.min_profit),
                     first |-> IF finder.phase = "done" THEN FirstCall ELSE finder.first]

\* A further call, with any arguments, after the calls made so far: the
\* function reads its parameters and the constants WEI_SCALE and BPS_DENOM
\* and nothing else, and it writes nothing.
FindTradeAgain ==
    /\ finder.phase \in {"done", "again"}
    /\ UNCHANGED <<execution_lock, is_executing, last_execution_time, pc, opp, txs, raised,
                   result, file, flock, wpc, wloc, nrecords, recorded, cfg, scan, amm,
                   botVars, clientVars>>
    /\ \E a \in RepeatedFinderArgs :
          finder' = [phase |-> "again", args |-> a,
                     found |-> find_optimal_trade_auto(a.reserve_x, a.reserve_y,
                                  a.oracle_price_xy, a.balance_x, a.balance_y,
                                  a.fee_bps, a.min_profit),
                     first |-> IF finder.phase = "done" THEN FirstCall ELSE finder.first]

RepeatNext == FindTrade \/ FindTradeAgain

----------------------------------------------------------------------------
(* get_output_amount and get_optimal_input applied to arbitrary arguments  *)

MaxAmmInput == 6
MaxAmmReserve == 6

\* Arguments of get_output_amount: every combination of small ones, those
\* out of range included, and inputs of 3.34 and 10 units against reserves of
\* 10 and 45 units, where a fee of 0.3% is more than the rounding.
OutputArgs ==
    [dx : (0 - 1)..MaxAmmInput, reserve_x : (0 - 1)..MaxAmmReserve,
     reserve_y : (0 - 1)..MaxAmmReserve, fee_bps : {0 - 1, 0, 30, 3000, BPS_DENOM}]
    \cup
    [dx : {334, 10 * WEI_SCALE}, reserve_x : {10 * WEI_SCALE},
     reserve_y : {10 * WEI_SCALE, 45 * WEI_SCALE}, fee_bps : {0, 30, 3000}]

\* Arguments of get_optimal_input, as its callers validate them: reserves
\* and price above 0, the fee in [0, BPS_DENOM).
OptimalArgs ==
    [reserve_in : 1..MaxAmmReserve, reserve_out : 1..MaxAmmReserve,
     market_price_scaled : {WEI_SCALE \div 2, WEI_SCALE, 2 * WEI_SCALE},
     fee_basis_points : {0, 30, 3000}]
    \cup
    [reserve_in : {10 * WEI_SCALE, 20 * WEI_SCALE},
     reserve_out : {20 * WEI_SCALE, 45 * WEI_SCALE},
     market_price_scaled : {WEI_SCALE, (3 * WEI_SCALE) \div 2},
     fee_basis_points : {0, 30, 3000}]

\* dy = get_output_amount(dx, reserve_x, reserve_y, fee_bps)
GetOutputAmount ==
    /\ amm.phase = "args" /\ amm.op = "output"
    /\ UNCHANGED <<execution_lock, is_executing, last_execution_time, pc, opp, txs, raised,
                   result, file, flock, wpc, wloc, nrecords, recorded, cfg, scan, finder,
                   botVars, clientVars>>
    /\ LET a == amm.args
       IN  amm' = [phase |-> "done", op |-> "output", args |-> a, dx |-> a.dx,
                   dy |-> get_output_amount(a.dx, a.reserve_x, a.reserve_y, a.fee_bps)]

\* dx = get_optimal_input(reserve_in, reserve_out, price, fee), then the swap
\* of dx through the same pool: dy = get_output_amount(dx, reserve_in,
\* reserve_out, fee), as both branches of find_optimal_trade_auto do with an
\* input the balance covers.
SolveAndSwap ==
    /\ amm.phase = "args" /\ amm.op = "optimal"
    /\ UNCHANGED <<execution_lock, is_executing, last_execution_time, pc, opp, txs, raised,
                   result, file, flock, wpc, wloc, nrecords, recorded, cfg, scan, finder,
                   botVars, clientVars>>
    /\ LET a == amm.args
           dx == get_optimal_input(a.reserve_in, a.reserve_out, a.market_price_scaled,
                                   a.fee_basis_points)
       IN  amm' = [phase |-> "done", op |-> "optimal", args |-> a, dx |-> dx,
                   dy |-> get_output_amount(dx, a.reserve_in, a.reserve_out,
                                            a.fee_basis_points)]

AmmNext == GetOutputAmount \/ SolveAndSwap

----------------------------------------------------------------------------
(* ArbitrageBot (src/main.py): one ArbitrageExecutor per configured pool,  *)
(* each with its own Pool, its own lock and its own is_executing, and one  *)
(* PriceOracle shared by all.  Both pools trade a token A against USDST.   *)

NumPairs == 2        \* pools configured, one executor each

Pairs == 1..NumPairs

\* The main thread, which runs ArbitrageBot.run; the other threads are the
\* Callers.
Main == 0
Threads == {Main} \cup Callers

\* When a value was fetched: by a request of the polling cycle that is
\* running, or before it (in an earlier cycle or in init_components).
ThisCycle == "this cycle"
Earlier == "earlier"

\* PoolData as fetch_pool_data builds it, with the balances it writes into
\* the Token objects; at tells when the request that returned it was made.
PoolData(ra, rb, ba, bb, c) ==
    [reserve_a |-> ra, reserve_b |-> rb, balance_a |-> ba, balance_b |-> bb, at |-> c]

NoPoolData == PoolData(0, 0, 0, 0, "never")

\* What a pool request made at c can return: a pool that prices A at
\* 2.0 or one that prices it at 1.0, with a wallet that holds both tokens; or
\* it fails.
PoolSnapshots(c) ==
    { PoolData(1000, 2000, 500, 500, c), PoolData(1000, 1000, 500, 500, c) }

PoolReplies(c) ==
    [failed : {FALSE}, data : PoolSnapshots(c)] \cup {[failed |-> TRUE, data |-> NoPoolData]}

\* Mutant: the scan asks for the pool data without force_refresh.
fetch_pool_data_unforced(_pool_data, force_refresh, reply) ==
    IF _pool_data # NoPoolData
    THEN [raised |-> FALSE, data |-> _pool_data, _pool_data |-> _pool_data]
    ELSE IF reply.failed
         THEN [raised |-> TRUE, data |-> NoPoolData, _pool_data |-> _pool_data]
         ELSE [raised |-> FALSE, data |-> reply.data, _pool_data |-> reply.data]

\* Pool.fetch_pool_data(force_refresh): the cached _pool_data if there is one
\* and no refresh is forced; otherwise the request, whose failure is raised
\* and leaves the cache as it was, and whose reply replaces the cache.
fetch_pool_data(_pool_data, force_refresh, reply) ==
    IF _pool_data # NoPoolData /\ ~force_refresh
    THEN [raised |-> FALSE, data |-> _pool_data, _pool_data |-> _pool_data]
    ELSE IF reply.failed
         THEN [raised |-> TRUE, data |-> NoPoolData, _pool_data |-> _pool_data]
         ELSE [raised |-> FALSE, data |-> reply.data, _pool_data |-> reply.data]

\* An oracle price, and when the request that returned it was made.
PriceAt(p, c) == [found |-> TRUE, price |-> p, at |-> c]
NoPriceAt == [found |-> FALSE, price |-> 0, at |-> "never"]

\* What a price request made at c returns for token A: nothing (the request
\* failed or has no such symbol), or 1.5 USD, which lies between the prices
\* of the two pool snapshots.
PriceRepliesAt(c) == { NoPriceAt, PriceAt((3 * WEI_SCALE) \div 2, c) }

\* Mutant: a symbol the request did not return is served from the cache.
fetch_all_prices_cache_fallback(cached, force_refresh, fresh, reply) ==
    IF cached.found /\ ~force_refresh /\ fresh
    THEN [price |-> cached, _cache |-> cached]
    ELSE IF reply.found
         THEN [price |-> reply, _cache |-> reply]
         ELSE [price |-> cached, _cache |-> cached]

\* PriceOracle.fetch_all_prices for one symbol other than USDST: the cached
\* price if it is fresh (now - cached[1] < self.cache_duration) and no
\* refresh is forced; otherwise the request, whose price is cached and
\* returned; a failed request is logged and the symbol is left out of the
\* prices returned.
fetch_all_prices(cached, force_refresh, fresh, reply) ==
    IF cached.found /\ ~force_refresh /\ fresh
    THEN [price |-> cached, _cache |-> cached]
    ELSE IF reply.found
         THEN [price |-> reply, _cache |-> reply]
         ELSE [price |-> NoPriceAt, _cache |-> cached]

\* USDST_PRICE_WEI: the price of USDST, returned without a request.
USDST_PRICE_WEI == WEI_SCALE

\* get_balance replies in the loop: 0.01 USDST and no voucher, or the
\* (0, 0) of a failed request and of an empty account.
LoopGasReplies == { [usdst |-> min_usdst_for_gas, voucher |-> 0], NoGasReply }

\* The record of a scan of this polling cycle: the executor, how far the
\* scan got, the data it computed with, and what it returned.
Scanned(e, stage, data, price_a, ga, gb, res) ==
    [on |-> e, stage |-> stage, pool |-> data, price_a |-> price_a,
     gas_a |-> ga, gas_b |-> gb, result |-> res]

NotScanned ==
    Scanned(0, "none", NoPoolData, NoPriceAt, NoGasReply, NoGasReply, NoOpportunity)

\* The arguments of the swap transaction: not built yet, or what Pool.swap
\* put into args.
NoSwapArgs == [isAToB |-> FALSE, amountIn |-> 0, minAmountOut |-> 0]

\* An execute_opportunity call of a thread: the executor it is made on, its
\* argument and locals, and what it returned.
IdleCall ==
    [pc |-> "idle", on |-> 0, opportunity |-> NoOpportunity, transactions |-> 0,
     raised |-> NoError, args |-> NoSwapArgs, result |-> NoResult]

\* int(min_amount_out * 0.96): the product is a float and int truncates it
\* toward zero.  For 0 <= min_amount_out <= 2 * 10^6 the result is the integer
\* floor(min_amount_out * 96 / 100) (compared with the source over that
\* whole range); at 10^18 and above the float product is within 3 parts in
\* 10^16 of it.
TruncateTowardZero(n, dvr) == IF n >= 0 THEN n \div dvr ELSE -((-n) \div dvr)

\* Mutant: the tolerance is added instead of taken off.
min_amount_out_scaled_up(min_amount_out) == TruncateTowardZero(min_amount_out * 104, 100)

min_amount_out_scaled(min_amount_out) == TruncateTowardZero(min_amount_out * 96, 100)

\* Pool.swap(amount_in, token_in, min_amount_out): the args of the swap
\* transaction; token_in is "a" or "b".
SwapArgs(amount_in, token_in, min_amount_out) ==
    [isAToB |-> token_in = "a", amountIn |-> amount_in,
     minAmountOut |-> min_amount_out_scaled(min_amount_out)]

\* Mutant: the token named by the direction is taken as the token spent.
TokenInBought(opportunity) == IF opportunity.direction = "buy" THEN "a" ELSE "b"

\* token_in = self.token_b if opportunity.direction == "buy" else self.token_a
TokenIn(opportunity) == IF opportunity.direction = "buy" THEN "b" ELSE "a"

\* The call has returned r: its locals are gone.
ReturnedCall(r) == [IdleCall EXCEPT !.pc = "returned", !.result = r]

\* What a step of execute_opportunity leaves alone.
CallFrame ==
    UNCHANGED <<execution_lock, is_executing, last_execution_time, pc, opp, txs, raised,
                result, flock, wpc, wloc, nrecords, recorded, cfg, scan, finder, amm,
                bot, oracle, clientVars>>

\* with self._execution_lock: blocks while a caller holds this executor's lock.
AcquireOn(t) ==
    /\ calls[t].pc = "acquire"
    /\ executors[calls[t].on].execution_lock = NoOne
    /\ executors' = [executors EXCEPT ![calls[t].on].execution_lock = {t}]
    /\ calls' = [calls EXCEPT ![t].pc = "check"]
    /\ file' = file
    /\ CallFrame

\* Mutant: is_executing is an attribute of the class, shared by the executors.
GuardCheckOnSharedFlag(t) ==
    /\ calls[t].pc = "check"
    /\ IF \E e \in Pairs : executors[e].is_executing
       THEN /\ calls' = [calls EXCEPT ![t] = ReturnedCall(
                                ExecutionResult(t, FALSE, calls[t].opportunity, 0,
                                                AlreadyRunning))]
            /\ executors' = [executors EXCEPT ![calls[t].on].execution_lock = NoOne]
       ELSE /\ calls' = [calls EXCEPT ![t].pc = "set"]
            /\ executors' = executors
    /\ file' = file
    /\ CallFrame

\* if self.is_executing: return ExecutionResult(success=False, ...,
\* error_message="Executor is already running"); the lock is released.
GuardCheckOn(t) ==
    /\ calls[t].pc = "check"
    /\ IF executors[calls[t].on].is_executing
       THEN /\ calls' = [calls EXCEPT ![t] = ReturnedCall(
                                ExecutionResult(t, FALSE, calls[t].opportunity, 0,
                                                AlreadyRunning))]
            /\ executors' = [executors EXCEPT ![calls[t].on].execution_lock = NoOne]
       ELSE /\ calls' = [calls EXCEPT ![t].pc = "set"]
            /\ executors' = executors
    /\ file' = file
    /\ CallFrame

\* self.is_executing = True; the with block ends and releases the lock.
GuardSetOn(t) ==
    /\ calls[t].pc = "set"
    /\ executors' = [executors EXCEPT ![calls[t].on].is_executing = TRUE,
                                      ![calls[t].on].execution_lock = NoOne]
    /\ calls' = [calls EXCEPT ![t].pc = "swap"]
    /\ file' = file
    /\ CallFrame

\* swap_hash = self.pool.swap(amount_in, token_in, min_amount_out=expected_out):
\* the transaction is built and submitted; the submission returns a hash,
\* which is appended to transactions, or raises.
SwapOn(t) ==
    /\ calls[t].pc = "swap"
    /\ LET o == calls[t].opportunity
           args == SwapArgs(o.optimal_input, TokenIn(o), o.expected_output)
       IN  \/ calls' = [calls EXCEPT ![t].pc = "wait", ![t].transactions = 1,
                                     ![t].args = args]
           \/ calls' = [calls EXCEPT ![t].pc = "finally", ![t].args = args,
                                     ![t].raised = "Transaction submission failed"]
    /\ UNCHANGED <<executors, file>>
    /\ CallFrame

\* client.wait_for_transaction(swap_hash) returns on status Success and
\* raises on status Failed/Failure and on the timeout.
WaitOn(t) ==
    /\ calls[t].pc = "wait"
    /\ \/ calls' = [calls EXCEPT ![t].pc = "ledger"]
       \/ \E e \in {"Transaction failed", "Transaction timeout"} :
             calls' = [calls EXCEPT ![t].pc = "finally", ![t].raised = e]
    /\ UNCHANGED <<executors, file>>
    /\ CallFrame

\* update_cumulative_profit(opportunity.estimated_profit)
UpdateLedgerOn(t) ==
    /\ calls[t].pc = "ledger"
    /\ IF CallBinds(LedgerArgsSupplied)
       THEN /\ file' = LedgerAfter(file, ProfitUsdWei(calls[t].opportunity.estimated_profit,
                                                     QuoteUsdPrice))
            /\ calls' = [calls EXCEPT ![t].pc = "finally"]
       ELSE /\ file' = file
            /\ calls' = [calls EXCEPT ![t].pc = "finally",
                                      ![t].raised = "TypeError: missing argument price_b"]
    /\ executors' = executors
    /\ CallFrame

\* finally: with self._execution_lock:
FinallyOn(t) ==
    /\ calls[t].pc = "finally"
    /\ executors[calls[t].on].execution_lock = NoOne
    /\ executors' = [executors EXCEPT ![calls[t].on].execution_lock = {t}]
    /\ calls' = [calls EXCEPT ![t].pc = "clear"]
    /\ file' = file
    /\ CallFrame

\* time.time() in an executor's last_execution_time, which starts at 0 and is
\* read nowhere: every later value stands for "set".
TimeNow == 1

\* The exception of a thread that except Exception does not catch.
KeyboardInterrupt == "KeyboardInterrupt"

\* self.is_executing = False; the lock is released;
\* self.last_execution_time = time.time(); then the pending return of the
\* try or except block completes, or the exception that except Exception did
\* not catch goes on to the caller.
ClearOn(t) ==
    /\ calls[t].pc = "clear"
    /\ executors' = [executors EXCEPT
           ![calls[t].on].is_executing = FALSE,
           ![calls[t].on].execution_lock = NoOne,
           ![calls[t].on].last_execution_time = TimeNow]
    /\ IF calls[t].raised = KeyboardInterrupt
       THEN calls' = [calls EXCEPT ![t].pc = "propagated"]
       ELSE calls' = [calls EXCEPT ![t] = ReturnedCall(
                         ExecutionResult(t, calls[t].raised = NoError,
                                         calls[t].opportunity, calls[t].transactions,
                                         IF calls[t].raised = NoError THEN ""
                                         ELSE calls[t].raised))]
    /\ file' = file
    /\ CallFrame

\* execute_opportunity(opportunity) is entered on executor e.
StartCall(e, o) == [IdleCall EXCEPT !.pc = "acquire", !.on = e, !.opportunity = o]

\* A thread calls execute_opportunity on one of the executors, with a buy as
\* a scan returns it; its previous call, if any, has returned.
CallOn(t) ==
    /\ calls[t].pc \in {"idle", "returned"}
    /\ \E e \in Pairs :
          calls' = [calls EXCEPT ![t] = StartCall(e, Opportunity("buy", 230, 186, 49))]
    /\ UNCHANGED <<executors, file>>
    /\ CallFrame

\* What one scan_for_opportunity of executor e does with the replies it
\* gets: the forced fetch_pool_data, get_reserves (fetch_pool_data again,
\* unforced), fetch_token_prices with force_refresh (token B is USDST), the
\* validations, then find_optimal_trade_auto on the gas-adjusted balances.
ScanOutcome(e, reply, price_reply, fresh, ga, gb) ==
    LET forced == fetch_pool_data(executors[e].pool_data, TRUE, reply)
        reserves == fetch_pool_data(forced._pool_data, FALSE, reply)
        data == reserves.data
        fetched == fetch_all_prices(oracle[e], TRUE, fresh, price_reply)
        price_a == fetched.price
        price_b == USDST_PRICE_WEI
        oracle_price == (price_a.price * WEI_SCALE) \div price_b
        sa == check_gas_balance([is_usdst |-> FALSE, balance |-> data.balance_a],
                                data.balance_a, ga)
        sb == check_gas_balance([is_usdst |-> TRUE, balance |-> data.balance_b],
                                data.balance_b, gb)
        found == find_optimal_trade_auto(data.reserve_a, data.reserve_b, oracle_price,
                                         sa, sb, cfg.fee_bps, cfg.min_profit)
        none(stage, d, p) == Scanned(e, stage, d, p, NoGasReply, NoGasReply, NoOpportunity)
    IN  IF forced.raised \/ reserves.raised
        THEN [scanned |-> none("pool", NoPoolData, NoPriceAt),
              _pool_data |-> forced._pool_data, _cache |-> oracle[e]]
        ELSE IF data.reserve_a <= 0 \/ data.reserve_b <= 0
        THEN [scanned |-> none("reserves", data, NoPriceAt),
              _pool_data |-> forced._pool_data, _cache |-> oracle[e]]
        ELSE IF ~price_a.found \/ price_b <= 0 \/ oracle_price <= 0
        THEN [scanned |-> none("prices", data, price_a),
              _pool_data |-> forced._pool_data, _cache |-> fetched._cache]
        ELSE IF data.balance_a <= 0 /\ data.balance_b <= 0
        THEN [scanned |-> none("balances", data, price_a),
              _pool_data |-> forced._pool_data, _cache |-> fetched._cache]
        ELSE [scanned |-> Scanned(e, "finder", data, price_a, ga, gb, OpportunityOf(found)),
              _pool_data |-> forced._pool_data, _cache |-> fetched._cache]

\* What a step of the loop leaves alone.
LoopFrame ==
    UNCHANGED <<execution_lock, is_executing, last_execution_time, pc, opp, txs, raised,
                result, file, flock, wpc, wloc, nrecords, recorded, cfg, scan, finder, amm,
                clientVars>>

\* A value that was fetched in the polling cycle that has ended.
Aged(v) == IF v.at = ThisCycle THEN [v EXCEPT !.at = Earlier] ELSE v

\* while self.running: a running loop calls scan_once, which begins the next
\* polling cycle: what the caches hold is from before it.  A stopped loop
\* leaves run.
While ==
    /\ bot.pos = "while"
    /\ IF bot.running
       THEN /\ bot' = [bot EXCEPT !.pos = "for", !.i = 1, !.opp = NoOpportunity,
                                  !.scanned = NotScanned]
            /\ executors' = [e \in Pairs |->
                                [executors[e] EXCEPT !.pool_data = Aged(executors[e].pool_data)]]
            /\ oracle' = [e \in Pairs |-> Aged(oracle[e])]
       ELSE /\ bot' = [bot EXCEPT !.pos = "exited"]
            /\ UNCHANGED <<executors, oracle>>
    /\ calls' = calls
    /\ LoopFrame

\* for i, executor in enumerate(self.executors): the next executor's
\* scan_for_opportunity is entered; after the last one scan_once returns
\* False.
For ==
    /\ bot.pos = "for"
    /\ IF bot.i > NumPairs
       THEN /\ bot' = [bot EXCEPT !.pos = "sleep"]
            /\ executors' = executors
       ELSE /\ bot' = [bot EXCEPT !.pos = "scan"]
            /\ executors' = [executors EXCEPT ![bot.i].scanning = TRUE]
    /\ UNCHANGED <<calls, oracle>>
    /\ LoopFrame

\* Mutant: a scan stamps the executor as if it had executed.
ScanForOpportunityOnStamps ==
    /\ bot.pos = "scan"
    /\ \E reply \in PoolReplies(ThisCycle), price_reply \in PriceRepliesAt(ThisCycle),
          fresh \in BOOLEAN, ga, gb \in LoopGasReplies :
          LET out == ScanOutcome(bot.i, reply, price_reply, fresh, ga, gb)
          IN  /\ executors' = [executors EXCEPT ![bot.i].scanning = FALSE,
                                                ![bot.i].pool_data = out._pool_data,
                                                ![bot.i].last_execution_time = TimeNow]
              /\ oracle' = [oracle EXCEPT ![bot.i] = out._cache]
              /\ bot' = [bot EXCEPT !.pos = "if_opp", !.opp = out.scanned.result,
                                    !.scanned = out.scanned]
    /\ calls' = calls
    /\ LoopFrame

\* opp = executor.scan_for_opportunity()
ScanForOpportunityOn ==
    /\ bot.pos = "scan"
    /\ \E reply \in PoolReplies(ThisCycle), price_reply \in PriceRepliesAt(ThisCycle),
          fresh \in BOOLEAN, ga, gb \in LoopGasReplies :
          LET out == ScanOutcome(bot.i, reply, price_reply, fresh, ga, gb)
          IN  /\ executors' = [executors EXCEPT ![bot.i].scanning = FALSE,
                                                ![bot.i].pool_data = out._pool_data]
              /\ oracle' = [oracle EXCEPT ![bot.i] = out._cache]
              /\ bot' = [bot EXCEPT !.pos = "if_opp", !.opp = out.scanned.result,
                                    !.scanned = out.scanned]
    /\ calls' = calls
    /\ LoopFrame

\* Mutant: scan_once does not look at self.dry_run.
IfOppLive ==
    /\ bot.pos = "if_opp"
    /\ IF bot.opp = NoOpportunity
       THEN /\ bot' = [bot EXCEPT !.pos = "for", !.i = bot.i + 1]
            /\ calls' = calls
       ELSE /\ bot' = [bot EXCEPT !.pos = "exec"]
            /\ calls' = [calls EXCEPT ![Main] = StartCall(bot.i, bot.opp)]
    /\ UNCHANGED <<executors, oracle>>
    /\ LoopFrame

\* if not opp: continue; if self.dry_run: return True;
\* res = executor.execute_opportunity(opp)
IfOpp ==
    /\ bot.pos = "if_opp"
    /\ IF bot.opp = NoOpportunity
       THEN /\ bot' = [bot EXCEPT !.pos = "for", !.i = bot.i + 1]
            /\ calls' = calls
       ELSE IF bot.dry_run
       THEN /\ bot' = [bot EXCEPT !.pos = "sleep"]
            /\ calls' = calls
       ELSE /\ bot' = [bot EXCEPT !.pos = "exec"]
            /\ calls' = [calls EXCEPT ![Main] = StartCall(bot.i, bot.opp)]
    /\ UNCHANGED <<executors, oracle>>
    /\ LoopFrame

\* Mutant: after an execution scan_once goes on with the next pool.
ReturnSuccessContinues ==
    /\ bot.pos = "exec"
    /\ calls[Main].pc = "returned"
    /\ bot' = [bot EXCEPT !.pos = "for", !.i = bot.i + 1]
    /\ calls' = [calls EXCEPT ![Main] = IdleCall]
    /\ UNCHANGED <<executors, oracle>>
    /\ LoopFrame

\* Mutant: the execution is handed to a background task and the loop goes on
\* without waiting for its result.
ReturnSuccessNotAwaited ==
    /\ bot.pos = "exec"
    /\ bot' = [bot EXCEPT !.pos = "sleep"]
    /\ UNCHANGED <<executors, calls, oracle>>
    /\ LoopFrame

\* return res.success: execute_opportunity has returned its result, scan_once
\* returns, and the loop goes on to time.sleep(self.interval).
ReturnSuccess ==
    /\ bot.pos = "exec"
    /\ calls[Main].pc = "returned"
    /\ bot' = [bot EXCEPT !.pos = "sleep"]
    /\ calls' = [calls EXCEPT ![Main] = IdleCall]
    /\ UNCHANGED <<executors, oracle>>
    /\ LoopFrame

\* Mutant: a loop error ends the loop.
ExceptExceptionStops ==
    /\ bot.pos \in {"if_opp", "sleep"}
    /\ bot' = [bot EXCEPT !.pos = "while", !.running = FALSE, !.i = 0,
                          !.opp = NoOpportunity, !.scanned = NotScanned]
    /\ UNCHANGED <<executors, calls, oracle>>
    /\ LoopFrame

\* An Exception is raised in the try block of run outside
\* scan_for_opportunity and execute_opportunity, which catch their own: by
\* the print calls that follow a scan and that follow scan_once.  It leaves
\* scan_once, whose locals are gone; except Exception logs it and goes on to
\* its time.sleep(self.interval).
ExceptException ==
    /\ bot.pos \in {"if_opp", "sleep"}
    /\ bot' = [bot EXCEPT !.pos = "error_sleep", !.i = 0,
                          !.opp = NoOpportunity, !.scanned = NotScanned]
    /\ UNCHANGED <<executors, calls, oracle>>
    /\ LoopFrame

\* time.sleep(self.interval) returns: after scan_once, or in the handler of
\* a loop error.
Sleep ==
    /\ bot.pos \in {"sleep", "error_sleep"}
    /\ bot' = [bot EXCEPT !.pos = "while"]
    /\ UNCHANGED <<executors, calls, oracle>>
    /\ LoopFrame

\* SIGINT during the time.sleep of the except Exception handler: the
\* KeyboardInterrupt is raised outside the try block and leaves run.
InterruptErrorSleep ==
    /\ bot.pos = "error_sleep"
    /\ bot' = [bot EXCEPT !.pos = "exited"]
    /\ UNCHANGED <<executors, calls, oracle>>
    /\ LoopFrame

\* SIGINT while the main thread is in scan_once outside execute_opportunity
\* or in time.sleep: KeyboardInterrupt is raised there; the except Exception
\* of scan_for_opportunity does not catch it, the except KeyboardInterrupt
\* of run does and sets self.running = False.
InterruptLoop ==
    /\ bot.pos \in {"for", "scan", "if_opp", "sleep"}
    /\ bot' = [bot EXCEPT !.pos = "while", !.running = FALSE]
    /\ executors' = [e \in Pairs |-> [executors[e] EXCEPT !.scanning = FALSE]]
    /\ UNCHANGED <<calls, oracle>>
    /\ LoopFrame

\* SIGINT while the main thread is inside the try block of
\* execute_opportunity (in pool.swap, in the requests and time.sleep(2) of
\* wait_for_transaction, in update_cumulative_profit): KeyboardInterrupt is
\* raised there.  It is not an Exception, so neither the handlers of
\* wait_for_transaction nor except Exception of execute_opportunity catch
\* it: the finally block runs next.
InterruptExecution ==
    /\ bot.pos = "exec"
    /\ calls[Main].pc \in {"swap", "wait", "ledger"}
    /\ calls' = [calls EXCEPT ![Main].pc = "finally", ![Main].raised = KeyboardInterrupt]
    /\ UNCHANGED <<bot, executors, oracle>>
    /\ LoopFrame

\* KeyboardInterrupt leaves execute_opportunity and scan_once; except
\* KeyboardInterrupt: self.running = False.
ExceptKeyboardInterrupt ==
    /\ bot.pos = "exec"
    /\ calls[Main].pc = "propagated"
    /\ bot' = [bot EXCEPT !.pos = "while", !.running = FALSE]
    /\ calls' = [calls EXCEPT ![Main] = IdleCall]
    /\ UNCHANGED <<executors, oracle>>
    /\ LoopFrame

BotNext ==
    \/ While
    \/ For
    \/ ScanForOpportunityOn
    \/ IfOpp
    \/ AcquireOn(Main)
    \/ GuardCheckOn(Main)
    \/ GuardSetOn(Main)
    \/ SwapOn(Main)
    \/ WaitOn(Main)
    \/ UpdateLedgerOn(Main)
    \/ FinallyOn(Main)
    \/ ClearOn(Main)
    \/ ReturnSuccess
    \/ Sleep
    \/ InterruptLoop
    \/ InterruptExecution
    \/ ExceptKeyboardInterrupt
    \/ ExceptException
    \/ InterruptErrorSleep

PairNext ==
    \E t \in Callers :
        \/ CallOn(t)
        \/ AcquireOn(t)
        \/ GuardCheckOn(t)
        \/ GuardSetOn(t)
        \/ SwapOn(t)
        \/ WaitOn(t)
        \/ UpdateLedgerOn(t)
        \/ FinallyOn(t)
        \/ ClearOn(t)

----------------------------------------------------------------------------
(* Pool.swap applied to arbitrary opportunities                             *)

MaxExpectedOut == 120   \* expected_output handed to Pool.swap: 0..MaxExpectedOut

\* The arguments execute_opportunity passes: optimal_input, the token spent,
\* expected_output.
PoolSwapArgs == [amount_in : {1, 230}, token_in : {"a", "b"}, min_amount_out : 0..MaxExpectedOut]

\* self.pool.swap(amount_in, token_in, min_amount_out=expected_out) builds
\* the args of the transaction it submits.
PoolSwap ==
    /\ swap.phase = "args"
    /\ swap' = [phase |-> "done", call |-> swap.call,
                args |-> SwapArgs(swap.call.amount_in, swap.call.token_in,
                                  swap.call.min_amount_out)]
    /\ UNCHANGED <<execution_lock, is_executing, last_execution_time, pc, opp, txs, raised,
                   result, file, flock, wpc, wloc, nrecords, recorded, cfg, scan, finder, amm,
                   botVars, waiter>>

SwapNext == PoolSwap

----------------------------------------------------------------------------
(* StratoClient.wait_for_transaction(tx_hash, timeout)                      *)
(* Time is in seconds since start_time.                                     *)

MaxTimeout == 6      \* the ceiling handed to wait_for_transaction: 0..MaxTimeout
MaxRequestSeconds == 1   \* what one status request takes: 0..MaxRequestSeconds

\* time.sleep(2)
PollSleepSeconds == 2

\* The texts of the exceptions a failing status request raises: one without
\* and one with the words the inner handler looks for.
RequestErrors == {"Connection refused", "502 Bad Gateway: Transaction failed to load"}

\* if 'Transaction failed' in str(e)
HasTransactionFailed(text) == text = "502 Bad Gateway: Transaction failed to load"

\* What one status request brings: api_request raises ("error", with the text
\* of the exception), the reply is empty ("empty"), or data[0] has a status;
\* for the statuses Failed and Failure, txResult is an object, is absent, or
\* is null.
StatusReplies ==
    [status : {"empty", "Success", "Pending", "Unknown"}, txResult : {"object"}, text : {""}]
        \cup [status : {"Failed", "Failure"}, txResult : {"object", "absent", "null"},
              text : {""}]
        \cup [status : {"error"}, txResult : {"object"}, text : RequestErrors]

NoReply == [status |-> "none", txResult |-> "object", text |-> ""]

\* What the body of the inner try does with a reply: "return", "raise" (the
\* exception reaches the caller) or "sleep" (time.sleep(2), next iteration).
\*   Failed/Failure: tx_data.get('txResult', {}).get('message') raises
\*   AttributeError when txResult is null; the inner except re-raises only
\*   what has 'Transaction failed' in its text, logs the rest and sleeps.
PollOutcome(reply) ==
    CASE reply.status = "Success" -> "return"
      [] reply.status \in {"Failed", "Failure"} ->
            IF reply.txResult = "null" THEN "sleep" ELSE "raise"
      [] reply.status = "error" ->
            IF HasTransactionFailed(reply.text) THEN "raise" ELSE "sleep"
      [] OTHER -> "sleep"

\* start_time = time.time(); timeout_ms = timeout * 1000
WaitEnter ==
    /\ waiter.pc = "call"
    /\ waiter' = [waiter EXCEPT !.pc = "while", !.elapsed = 0]
    /\ UNCHANGED <<execution_lock, is_executing, last_execution_time, pc, opp, txs, raised,
                   result, file, flock, wpc, wloc, nrecords, recorded, cfg, scan, finder, amm,
                   botVars, swap>>

\* while (time.time() - start_time) * 1000 < timeout_ms: ...
\* raise TimeoutError(f"Transaction timeout after {timeout} seconds")
WaitWhile ==
    /\ waiter.pc = "while"
    /\ IF waiter.elapsed * 1000 < waiter.timeout * 1000
       THEN waiter' = [waiter EXCEPT !.pc = "poll"]
       ELSE waiter' = [waiter EXCEPT !.pc = "done", !.outcome = "Transaction timeout"]
    /\ UNCHANGED <<execution_lock, is_executing, last_execution_time, pc, opp, txs, raised,
                   result, file, flock, wpc, wloc, nrecords, recorded, cfg, scan, finder, amm,
                   botVars, swap>>

\* The status request and what the reply leads to.
WaitPoll ==
    /\ waiter.pc = "poll"
    /\ \E reply \in StatusReplies, took \in 0..MaxRequestSeconds :
          LET polled == [waiter EXCEPT !.elapsed = waiter.elapsed + took,
                                       !.polls = waiter.polls + 1, !.last = reply]
          IN  CASE PollOutcome(reply) = "return" ->
                      waiter' = [polled EXCEPT !.pc = "done", !.outcome = "Success"]
                [] PollOutcome(reply) = "raise" ->
                      waiter' = [polled EXCEPT !.pc = "done",
                                               !.outcome = IF reply.status = "error"
                                                           THEN reply.text
                                                           ELSE "Transaction failed"]
                [] OTHER ->
                      waiter' = [polled EXCEPT !.pc = "sleep"]
    /\ UNCHANGED <<execution_lock, is_executing, last_execution_time, pc, opp, txs, raised,
                   result, file, flock, wpc, wloc, nrecords, recorded, cfg, scan, finder, amm,
                   botVars, swap>>

\* time.sleep(2); the loop condition is evaluated again.
WaitSleep ==
    /\ waiter.pc = "sleep"
    /\ waiter' = [waiter EXCEPT !.pc = "while", !.elapsed = waiter.elapsed + PollSleepSeconds]
    /\ UNCHANGED <<execution_lock, is_executing, last_execution_time, pc, opp, txs, raised,
                   result, file, flock, wpc, wloc, nrecords, recorded, cfg, scan, finder, amm,
                   botVars, swap>>

WaitNext == WaitEnter \/ WaitWhile \/ WaitPoll \/ WaitSleep

----------------------------------------------------------------------------
(* Initial states and specifications                                        *)

ExecInit ==
    /\ execution_lock = NoOne
    /\ is_executing = FALSE
    /\ last_execution_time = 0
    /\ pc = [t \in Callers |-> "idle"]
    /\ opp = [t \in Callers |-> NoOpportunity]
    /\ txs = [t \in Callers |-> 0]
    /\ raised = [t \in Callers |-> NoError]
    /\ result = NoResult

\* The profit file is missing (no profitable execution yet) or holds a total.
InitialFiles == { FileMissing, FileJson(1) }

LedgerInit ==
    /\ file \in InitialFiles
    /\ flock = NoOne
    /\ wpc = [w \in Writers |-> "idle"]
    /\ wloc = [w \in Writers |-> WriterIdle]
    /\ nrecords = 0
    /\ recorded = file.total

\* The executor's configuration: the pool fee (30 bps by default, or none)
\* and the minimum profit.
ScanConfigs == [fee_bps : {0, 30}, min_profit : {1}]

ScanIdleInit ==
    /\ cfg = [fee_bps |-> 30, min_profit |-> 1]
    /\ scan = [phase |-> "idle"]

ScanInit ==
    /\ cfg \in ScanConfigs
    /\ scan = [phase |-> "idle"]

LedgerIdleInit ==
    /\ file = FileMissing
    /\ flock = NoOne
    /\ wpc = [w \in Writers |-> "idle"]
    /\ wloc = [w \in Writers |-> WriterIdle]
    /\ nrecords = 0
    /\ recorded = 0

FinderIdleInit == finder = [phase |-> "none"]

AmmIdleInit == amm = [phase |-> "none"]

FinderInit == finder \in [phase : {"args"}, args : FinderArgs, found : {Rejected("not called")}]

AmmInit ==
    \/ amm \in [phase : {"args"}, op : {"output"}, args : OutputArgs, dx : {0}, dy : {0}]
    \/ amm \in [phase : {"args"}, op : {"optimal"}, args : OptimalArgs, dx : {0}, dy : {0}]

\* run() has not been called: no loop, no scan, no call.
BotRecord(running, dry_run, pos) ==
    [running |-> running, dry_run |-> dry_run, pos |-> pos, i |-> 0,
     opp |-> NoOpportunity, scanned |-> NotScanned]

\* An executor as __init__ leaves it, with the pool data init_components
\* fetched (a failed fetch ends init_components).
NewExecutor(pool_data) ==
    [execution_lock |-> NoOne, is_executing |-> FALSE, last_execution_time |-> 0,
     scanning |-> FALSE, pool_data |-> pool_data]

\* The caches after init_components: each pool's data, and the price of each
\* token A if the pre-fetch got one.
ExecutorsInit ==
    /\ executors = [e \in Pairs |-> NewExecutor(PoolData(1000, 1000, 500, 500, Earlier))]
    /\ oracle \in [Pairs -> {NoPriceAt, PriceAt((3 * WEI_SCALE) \div 2, Earlier)}]
    /\ calls = [t \in Threads |-> IdleCall]

BotIdleInit ==
    /\ bot = BotRecord(FALSE, TRUE, "exited")
    /\ executors = [e \in Pairs |-> NewExecutor(PoolData(1000, 1000, 500, 500, Earlier))]
    /\ oracle = [e \in Pairs |-> NoPriceAt]
    /\ calls = [t \in Threads |-> IdleCall]

\* bot.dry_run = not a.live, where --live is a store_true flag: absent, the
\* bot runs dry.
DryRunOf(live) == ~live

\* bot.run() is entered: self.running = True; dry_run is True unless --live.
BotInit ==
    /\ bot \in {BotRecord(TRUE, DryRunOf(live), "while") : live \in BOOLEAN}
    /\ ExecutorsInit

\* Threads that call execute_opportunity on the executors, without the loop.
PairInit == BotIdleInit

ClientIdleInit ==
    /\ swap = [phase |-> "none"]
    /\ waiter = [pc |-> "none"]

SwapInit == swap \in [phase : {"args"}, call : PoolSwapArgs, args : {NoSwapArgs}]

WaitInit ==
    waiter \in [pc : {"call"}, timeout : 0..MaxTimeout, elapsed : {0}, polls : {0},
                last : {NoReply}, outcome : {"none"}]

Init ==
    /\ ExecInit /\ LedgerInit /\ ScanIdleInit /\ FinderIdleInit /\ AmmIdleInit
    /\ BotIdleInit /\ ClientIdleInit

Next ==
    \E t \in Callers :
        \/ Call(t)
        \/ Acquire(t)
        \/ GuardCheck(t)
        \/ GuardSet(t)
        \/ Swap(t)
        \/ Wait(t)
        \/ UpdateLedger(t)
        \/ Finally(t)
        \/ Clear(t)

Spec == Init /\ [][Next]_vars

LedgerNext ==
    \E w \in Writers :
        \/ Record(w)
        \/ PathExists(w)
        \/ LockForRead(w)
        \/ ReadTotal(w)
        \/ UnlockAfterRead(w)
        \/ OpenForWrite(w)
        \/ LockForWrite(w)
        \/ WriteTotal(w)
        \/ UnlockAfterWrite(w)

LedgerSpec == Init /\ [][LedgerNext]_vars

ScanSpecInit ==
    /\ ExecInit /\ LedgerIdleInit /\ ScanInit /\ FinderIdleInit /\ AmmIdleInit
    /\ BotIdleInit /\ ClientIdleInit

ScanSpec == ScanSpecInit /\ [][ScanNext]_vars

FinderSpecInit ==
    /\ ExecInit /\ LedgerIdleInit /\ ScanIdleInit /\ FinderInit /\ AmmIdleInit
    /\ BotIdleInit /\ ClientIdleInit

FinderSpec == FinderSpecInit /\ [][FinderNext]_vars

AmmSpecInit ==
    /\ ExecInit /\ LedgerIdleInit /\ ScanIdleInit /\ FinderIdleInit /\ AmmInit
    /\ BotIdleInit /\ ClientIdleInit

AmmSpec == AmmSpecInit /\ [][AmmNext]_vars

RepeatSpecInit ==
    /\ ExecInit /\ LedgerIdleInit /\ ScanIdleInit /\ AmmIdleInit
    /\ finder \in [phase : {"args"}, args : RepeatedFinderArgs, found : {Rejected("not called")}]
    /\ BotIdleInit /\ ClientIdleInit

RepeatSpec == RepeatSpecInit /\ [][RepeatNext]_vars

BotSpecInit ==
    /\ ExecInit /\ LedgerIdleInit /\ ScanIdleInit /\ FinderIdleInit /\ AmmIdleInit
    /\ BotInit /\ ClientIdleInit

BotSpec == BotSpecInit /\ [][BotNext]_vars

PairSpecInit ==
    /\ ExecInit /\ LedgerIdleInit /\ ScanIdleInit /\ FinderIdleInit /\ AmmIdleInit
    /\ PairInit /\ ClientIdleInit

PairSpec == PairSpecInit /\ [][PairNext]_vars

SwapSpecInit ==
    /\ ExecInit /\ LedgerIdleInit /\ ScanInit /\ FinderIdleInit /\ AmmIdleInit
    /\ BotIdleInit /\ SwapInit /\ waiter = [pc |-> "none"]

SwapSpec == SwapSpecInit /\ [][SwapNext]_vars

WaitSpecInit ==
    /\ ExecInit /\ LedgerIdleInit /\ ScanIdleInit /\ FinderIdleInit /\ AmmIdleInit
    /\ BotIdleInit /\ swap = [phase |-> "none"] /\ WaitInit

WaitSpec == WaitSpecInit /\ [][WaitNext]_vars

\* The thread that runs wait_for_transaction keeps running: a status request
\* returns or raises (it carries a request timeout) and time.sleep returns.
WaitFairSpec == WaitSpecInit /\ [][WaitNext]_vars /\ WF_vars(WaitNext)

----------------------------------------------------------------------------
(* Claims about the execution guard (Spec)                                  *)

\* Caller t is past the guard: it has set is_executing and not yet cleared it.
Inside(t) == pc[t] \in {"swap", "wait", "ledger", "finally", "clear"}

\* C1: a caller that reaches the guard while is_executing is set gets the busy
\* result in its very next step: success = FALSE, "Executor is already
\* running", no transaction, no swap submitted by it.  Exactly one other
\* caller is past the guard, and that caller has not moved: the rejected call
\* did not wait for it.
C1_BusyAtOnce ==
    [][\A t \in Callers :
          (pc[t] = "check" /\ is_executing /\ pc'[t] # "check") =>
              /\ pc'[t] = "idle"
              /\ result' = ExecutionResult(t, FALSE, opp[t], 0, AlreadyRunning)
              /\ Cardinality({u \in Callers \ {t} : Inside(u)}) = 1
              /\ \A u \in Callers \ {t} : pc'[u] = pc[u]
              /\ is_executing'
              /\ file' = file]_vars

\* C1 witness: a caller holds the busy result while the first caller is still
\* waiting for the confirmation of the swap it submitted.
C1_Witness ==
    \E t, u \in Callers :
        /\ t # u
        /\ result.caller = {t}
        /\ result.error_message = AlreadyRunning
        /\ pc[t] = "idle"
        /\ pc[u] = "wait"
        /\ txs[u] = 1

\* C2: at most one execute_opportunity invocation is past the guard.
C2_AtMostOneInside == Cardinality({t \in Callers : Inside(t)}) <= 1

\* C2 witness: one caller is past the guard while another has taken the lock
\* and stands at the check of the flag.
C2_Witness ==
    \E t, u \in Callers : t # u /\ Inside(t) /\ pc[u] = "check" /\ is_executing

\* C3: is_executing is set only while a call is past the guard: every call
\* that entered has cleared the flag when it returns, whatever the exit path,
\* so no caller is rejected as busy when no execution is in progress.
C3_FlagClearedOnExit == is_executing => \E t \in Callers : Inside(t)

\* C3 witness: executions have returned, the last one through the
\* confirmation timeout, nothing is in progress and the flag is clear.
C3_Witness ==
    /\ result.error_message = "Transaction timeout"
    /\ result.transactions = 1
    /\ last_execution_time >= 2
    /\ \A t \in Callers : ~Inside(t)
    /\ ~is_executing

\* C6: a confirmed swap makes the persisted cumulative profit grow by
\* floor(estimated_profit * usd_price / WEI_SCALE), and the call returns a
\* successful ExecutionResult.
C6_ConfirmedSwapRecorded ==
    [][\A t \in Callers :
          /\ (pc[t] = "ledger" /\ pc'[t] # "ledger") =>
                 /\ file'.kind = "json"
                 /\ file'.total = file.total
                                    + ProfitUsdWei(opp[t].estimated_profit, QuoteUsdPrice)
          /\ (pc[t] = "clear" /\ pc'[t] = "idle" /\ txs[t] = 1
                /\ raised[t] \notin {"Transaction failed", "Transaction timeout"}) =>
                 result'.success]_vars

\* The messages of an execution failure: what except Exception puts into
\* error_message.
FailureMessages == { "Transaction submission failed", "Transaction failed",
                     "Transaction timeout", "TypeError: missing argument price_b" }

\* C20: the return of a call rejected as busy hands back success = FALSE with
\* the "Executor is already running" message and an empty transaction list,
\* submits no swap, leaves the profit file, last_execution_time and the
\* position of every other caller as they are, and leaves is_executing set;
\* the return of an execution (from the finally) never carries that message,
\* and a failed one carries the message of its exception.
C20_BusyIsDistinctAndInert ==
    [][\A t \in Callers :
          /\ (pc[t] = "check" /\ pc'[t] = "idle") =>
                 /\ result'.caller = {t}
                 /\ ~result'.success
                 /\ result'.error_message = AlreadyRunning
                 /\ result'.transactions = 0
                 /\ txs' = txs /\ txs[t] = 0
                 /\ file' = file
                 /\ last_execution_time' = last_execution_time
                 /\ is_executing /\ is_executing'
                 /\ \E u \in Callers \ {t} : Inside(u) /\ pc'[u] = pc[u]
          /\ (pc[t] = "clear" /\ pc'[t] = "idle") =>
                 /\ result'.error_message # AlreadyRunning
                 /\ ~result'.success => result'.error_message \in FailureMessages]_vars

\* C20 witness: a caller holds the busy result, nothing submitted by it, while
\* the execution in progress has had its swap confirmed and is about to
\* update the ledger; an earlier execution has returned.
C20_Witness ==
    \E t, u \in Callers :
        /\ t # u
        /\ result.caller = {t}
        /\ result.error_message = AlreadyRunning
        /\ result.transactions = 0
        /\ pc[t] = "idle"
        /\ pc[u] = "ledger"
        /\ is_executing
        /\ last_execution_time >= 1

----------------------------------------------------------------------------
(* Claims about the profit ledger (LedgerSpec)                              *)

\* C4: once every record call has returned, the persisted total is the total
\* before the calls plus the profit of every call: no update is lost.
C4_NoLostUpdate ==
    ((\A w \in Writers : wpc[w] = "idle") /\ nrecords > 0) => file = FileJson(recorded)

\* C5: a writer that has read the existing total holds the exclusive lock
\* until it has written the new one.
C5_LockHeldReadToWrite ==
    \A w \in Writers :
        (wloc[w].data = "loaded" /\ wpc[w] \in {"unlock_r", "open_w", "lock_w", "write"})
            => flock = {w}

----------------------------------------------------------------------------
(* Claims about the scan (ScanSpec)                                         *)

\* get_balance showed neither a voucher of one unit nor 0.01 USDST.
NoGas(gas) == gas.voucher < WEI_SCALE /\ gas.usdst < min_usdst_for_gas

Returned == scan.phase = "done" /\ scan.result # NoOpportunity

\* The balance of the token an opportunity spends: token A for a sell, token
\* B for a buy; and whether that token is USDST.
SpentBalance == IF scan.result.direction = "sell" THEN scan.balance_a ELSE scan.balance_b
SpendsUsdst == \/ scan.result.direction = "sell" /\ scan.usdst_side = "a"
               \/ scan.result.direction = "buy" /\ scan.usdst_side = "b"

\* C7: a returned sell opportunity has an implied sell price
\* floor(expected_output * WEI_SCALE / optimal_input) above the known (> 0)
\* weighted-average acquisition cost of the sold token.
C7_NoSellAtOrBelowCost ==
    (Returned /\ scan.result.direction = "sell" /\ scan.avg_cost > 0) =>
        (scan.result.expected_output * WEI_SCALE) \div scan.result.optimal_input
            > scan.avg_cost

\* C8: without gas (no voucher unit, less than 0.01 USDST) check_gas_balance
\* reports 0 for a token, and a scan that finds no gas for either token
\* returns no opportunity.
C8_NoGasNoTrade ==
    (scan.phase = "done" /\ scan.stage = "finder") =>
        /\ NoGas(scan.gas_a) => scan.spendable_a = 0
        /\ NoGas(scan.gas_b) => scan.spendable_b = 0
        /\ (NoGas(scan.gas_a) /\ NoGas(scan.gas_b)) => scan.result = NoOpportunity

\* C8 witness: a scan without gas that returned nothing although the wallet
\* holds the full balance of token A and the pool prices A at twice the
\* oracle price or more.
C8_Witness ==
    /\ scan.phase = "done" /\ scan.stage = "finder"
    /\ NoGas(scan.gas_a) /\ NoGas(scan.gas_b)
    /\ scan.balance_a = MaxBalance
    /\ scan.usdst_side = "b"
    /\ scan.reserve_b * WEI_SCALE >= 2 * scan.reserve_a * scan.price_a.price
    /\ scan.result = NoOpportunity

\* C9: with gas, the spendable balance of the USDST token is
\* max(0, balance - 0.01) and that of any other token its full balance; an
\* opportunity that spends USDST leaves at least 0.01 USDST in the wallet.
C9_UsdstGasReserve ==
    (scan.phase = "done" /\ scan.stage = "finder") =>
        /\ ~NoGas(scan.gas_a) =>
              scan.spendable_a = IF scan.usdst_side = "a"
                                 THEN Max(0, scan.balance_a - min_usdst_for_gas)
                                 ELSE scan.balance_a
        /\ ~NoGas(scan.gas_b) =>
              scan.spendable_b = IF scan.usdst_side = "b"
                                 THEN Max(0, scan.balance_b - min_usdst_for_gas)
                                 ELSE scan.balance_b
        /\ (scan.result # NoOpportunity /\ SpendsUsdst) =>
              SpentBalance - scan.result.optimal_input >= min_usdst_for_gas

\* C9 witness: a buy that spends USDST up to the gas reserve: the input is
\* the wallet's balance less 0.01 USDST.
C9_Witness ==
    /\ Returned
    /\ scan.result.direction = "buy"
    /\ scan.usdst_side = "b"
    /\ scan.result.optimal_input > 0
    /\ scan.result.optimal_input = scan.balance_b - min_usdst_for_gas

----------------------------------------------------------------------------
(* Claims about find_optimal_trade_auto (FinderSpec)                        *)

Found == finder.phase = "done"

\* C10: a returned trade spends a strictly positive amount that is at most
\* the supplied balance of the token spent: balance_y for Y->X, balance_x
\* for X->Y.
C10_InputWithinBalance ==
    (finder.phase = "done" /\ finder.found.kind = "trade") =>
        /\ finder.found.amount_in > 0
        /\ finder.found.amount_in <= IF finder.found.side = "Y->X"
                                     THEN finder.args.balance_y
                                     ELSE finder.args.balance_x

\* C10 witness: a returned X->Y trade whose optimal input is larger than the
\* balance of X, so that the input is the balance.
C10_Witness ==
    /\ finder.phase = "done"
    /\ finder.found.kind = "trade"
    /\ finder.found.side = "X->Y"
    /\ finder.found.amount_in = finder.args.balance_x
    /\ get_optimal_input(finder.args.reserve_x, finder.args.reserve_y,
                         finder.args.oracle_price_xy, finder.args.fee_bps)
          > finder.args.balance_x

InvalidArgs(a) ==
    \/ a.reserve_x <= 0 \/ a.reserve_y <= 0 \/ a.oracle_price_xy <= 0
    \/ (a.balance_x <= 0 /\ a.balance_y <= 0)
    \/ a.fee_bps < 0 \/ a.fee_bps >= BPS_DENOM

\* C12: with a reserve or the oracle price <= 0, both balances <= 0, or a fee
\* outside [0, BPS_DENOM), the call returns one of the three validation
\* reasons and no trade; it neither computes a trade nor raises.
C12_InvalidArgsRejected ==
    (Found /\ InvalidArgs(finder.args)) =>
        /\ finder.found.kind = "reason"
        /\ finder.found \in { Rejected("Invalid inputs"), Rejected("No balances"),
                               Rejected("Invalid fee_bps") }

\* C12 witness: a call with reserve_x = 0, where the pool price cannot be
\* computed, and otherwise valid arguments returned "Invalid inputs"; so did
\* one with a negative oracle price, and one with a fee of BPS_DENOM on a
\* mispriced pool returned "Invalid fee_bps".
C12_Witness ==
    /\ Found
    /\ \/ /\ finder.args.reserve_x = 0 /\ finder.args.reserve_y > 0
          /\ finder.args.oracle_price_xy > 0 /\ finder.args.balance_y > 0
          /\ finder.args.fee_bps = 30
          /\ finder.found = Rejected("Invalid inputs")
       \/ /\ finder.args.reserve_x > 0 /\ finder.args.reserve_y > 0
          /\ finder.args.oracle_price_xy < 0 /\ finder.args.balance_x > 0
          /\ finder.found = Rejected("Invalid inputs")
       \/ /\ finder.args.reserve_x > finder.args.reserve_y /\ finder.args.reserve_y > 0
          /\ finder.args.oracle_price_xy = 2 * WEI_SCALE /\ finder.args.balance_y > 0
          /\ finder.args.fee_bps = BPS_DENOM
          /\ finder.found = Rejected("Invalid fee_bps")

\* P_pool = floor(reserve_y * WEI_SCALE / reserve_x) of the arguments.
PoolPrice(a) == (a.reserve_y * WEI_SCALE) \div a.reserve_x

ReasonsYX == { Rejected("No input available for Y->X"), Rejected("No output for Y->X"),
               Rejected("Profit too low for Y->X") }
ReasonsXY == { Rejected("No input available for X->Y"), Rejected("No output for X->Y"),
               Rejected("Profit too low for X->Y") }

\* C13: for valid arguments the pool price against the oracle price fixes the
\* direction: below it the call returns a Y->X trade or a Y->X reason, above
\* it an X->Y trade or an X->Y reason, and at the oracle price no trade and
\* the "Pool price equals oracle price" reason.
C13_DirectionByPoolPrice ==
    (Found /\ ~InvalidArgs(finder.args)) =>
        /\ PoolPrice(finder.args) < finder.args.oracle_price_xy =>
              \/ finder.found.kind = "trade" /\ finder.found.side = "Y->X"
              \/ finder.found \in ReasonsYX
        /\ PoolPrice(finder.args) > finder.args.oracle_price_xy =>
              \/ finder.found.kind = "trade" /\ finder.found.side = "X->Y"
              \/ finder.found \in ReasonsXY
        /\ PoolPrice(finder.args) = finder.args.oracle_price_xy =>
              finder.found = Rejected("Pool price equals oracle price")

\* C13 witness: a wallet holding both tokens on a pool that prices X below
\* the oracle got a Y->X trade.
C13_Witness ==
    /\ Found /\ ~InvalidArgs(finder.args)
    /\ finder.args.balance_x > 0 /\ finder.args.balance_y > 0
    /\ PoolPrice(finder.args) < finder.args.oracle_price_xy
    /\ finder.found.kind = "trade" /\ finder.found.side = "Y->X"

\* The equal case of C13 happens: a pool of unequal reserves whose floored
\* price is the oracle price was turned down with the "prices equal" reason.
C13_EqualPricesSeen ==
    /\ Found /\ ~InvalidArgs(finder.args)
    /\ finder.args.reserve_x # finder.args.reserve_y
    /\ PoolPrice(finder.args) = finder.args.oracle_price_xy
    /\ finder.found = Rejected("Pool price equals oracle price")

\* The balance a trade of the given side spends, and the profit of spending d
\* of it on the same snapshot: the quote of get_output_amount in the profit
\* formula of the side.
BalanceSpent(a, side) == IF side = "Y->X" THEN a.balance_y ELSE a.balance_x
ProfitOfInput(a, side, d) ==
    IF side = "Y->X"
    THEN calculate_buy_profit(d, a.reserve_y, a.reserve_x, a.oracle_price_xy, a.fee_bps)
    ELSE calculate_sell_profit(d, a.reserve_x, a.reserve_y, a.oracle_price_xy, a.fee_bps)

\* C14: the returned trade maximizes profit: no input amount in 1..balance of
\* the token spent, in the same direction and on the same snapshot, has a
\* strictly greater profit than the returned amount.
C14_ProfitMaximal ==
    (Found /\ finder.found.kind = "trade") =>
        \A d \in 1..BalanceSpent(finder.args, finder.found.side) :
            ProfitOfInput(finder.args, finder.found.side, d) <= finder.found.profit

\* The violation of C14 is more than rounding: a returned trade on a pool of
\* 10 units or more is beaten by a smaller input whose profit is greater by
\* at least 10 wei.
C14_BeatenBeyondRounding ==
    /\ Found /\ finder.found.kind = "trade"
    /\ finder.args \in LargeFinderArgs
    /\ \E d \in 1..BalanceSpent(finder.args, finder.found.side) :
          /\ d < finder.found.amount_in
          /\ ProfitOfInput(finder.args, finder.found.side, d) >= finder.found.profit + 10

\* The call of the spec's example, at any pool size: equal reserves, oracle
\* price 1.05, fee 30 bps, no X in the wallet and as much Y as the pool holds.
EqualPoolCall ==
    /\ Found
    /\ finder.args.reserve_x > 0
    /\ finder.args.reserve_y = finder.args.reserve_x
    /\ finder.args.oracle_price_xy = (105 * WEI_SCALE) \div 100
    /\ finder.args.fee_bps = 30
    /\ finder.args.balance_x = 0
    /\ finder.args.balance_y = finder.args.reserve_y

\* C19 as stated: with a threshold of one unit the call returns a Y->X
\* opportunity with input > 0 and profit > 0.
C19_EqualPoolBuys ==
    (EqualPoolCall /\ finder.args.min_profit = WEI_SCALE) =>
        /\ finder.found.kind = "trade" /\ finder.found.side = "Y->X"
        /\ finder.found.amount_in > 0 /\ finder.found.profit > 0

\* C19 amended: the call takes the Y->X direction.  It returns the Y->X
\* opportunity of the optimal input, with input > 0 and profit > 0, when that
\* input's profit is positive and reaches min_profit, and a Y->X reason and
\* no opportunity otherwise: whether a threshold of one unit is reached
\* depends on the size of the pool.
C19_EqualPoolBuysIfProfitReaches ==
    EqualPoolCall =>
        LET a == finder.args
            dy == Min(get_optimal_input(a.reserve_y, a.reserve_x,
                                        (WEI_SCALE * WEI_SCALE) \div a.oracle_price_xy,
                                        a.fee_bps),
                      a.balance_y)
            profit == calculate_buy_profit(dy, a.reserve_y, a.reserve_x, a.oracle_price_xy,
                                           a.fee_bps)
        IN  IF dy > 0 /\ profit > 0 /\ profit >= a.min_profit
            THEN /\ finder.found.kind = "trade" /\ finder.found.side = "Y->X"
                 /\ finder.found.amount_in = dy /\ finder.found.amount_in > 0
                 /\ finder.found.profit = profit /\ finder.found.profit > 0
            ELSE finder.found \in ReasonsYX

\* C19 witness: on a pool of more than 40 units a side the call with a
\* threshold of one wei returned the Y->X opportunity, and its profit is below
\* one unit.
C19_Witness ==
    /\ EqualPoolCall
    /\ finder.args.reserve_x > 40 * WEI_SCALE
    /\ finder.args.min_profit = 1
    /\ finder.found.kind = "trade" /\ finder.found.side = "Y->X"
    /\ finder.found.amount_in > 0
    /\ finder.found.profit > 0 /\ finder.found.profit < WEI_SCALE

----------------------------------------------------------------------------
(* Claims about get_optimal_input and get_output_amount (AmmSpec)           *)

\* get_optimal_input returned dx > 0 and dx was swapped through the pool.
Solved == amm.phase = "done" /\ amm.op = "optimal" /\ amm.dx > 0

\* The reserves after the swap: the whole input joins reserve_in, the output
\* leaves reserve_out.
PostIn == amm.args.reserve_in + amm.dx
PostOut == amm.args.reserve_out - amm.dy

RECURSIVE Gcd(_, _)
Gcd(a, b) == IF b = 0 THEN a ELSE Gcd(b, a % b)

\* The post-trade price PostOut / PostIn against the target price P (scaled by
\* WEI_SCALE), compared by cross-multiplication:
\* not below the target;
PostPriceNotPastTarget == PostOut * WEI_SCALE >= amm.args.market_price_scaled * PostIn
\* at the target up to the rounding of one unit of each reserve: with one
\* unit less of output and one more of input it is below the target;
PostPriceWithinRounding ==
    (PostOut - 1) * WEI_SCALE * PostIn < amm.args.market_price_scaled * (PostIn + 1) * (PostIn + 1)
\* not below the target less the fee, P * (BPS_DENOM - fee) / BPS_DENOM (the
\* two factors are reduced by their common divisor);
PostPriceWithinFee ==
    LET g == Gcd(BPS_DENOM, BPS_DENOM - amm.args.fee_basis_points)
    IN  PostOut * WEI_SCALE * (BPS_DENOM \div g)
            >= amm.args.market_price_scaled * ((BPS_DENOM - amm.args.fee_basis_points) \div g)
                   * PostIn
\* not above the price before the swap.
PostPriceMovedToTarget == PostOut * amm.args.reserve_in <= amm.args.reserve_out * PostIn

\* C15 as stated: after the swap of the optimal input the pool price equals
\* the target price up to integer rounding and has not moved past it.
C15_PostPriceAtTarget ==
    Solved => PostPriceNotPastTarget /\ PostPriceWithinRounding

\* C15 amended: the swap moves the pool price toward the target and leaves it
\* at or above target * (BPS_DENOM - fee) / BPS_DENOM.  With a fee of 0 it has
\* not moved past the target and equals it up to integer rounding; with a fee
\* the inflated input dx_eff * BPS_DENOM / (BPS_DENOM - fee) joins reserve_in
\* whole and the price can end past the target, by no more than the fee.
C15_PostPriceWithinFeeOfTarget ==
    Solved =>
        /\ PostPriceMovedToTarget
        /\ PostPriceWithinFee
        /\ amm.args.fee_basis_points = 0 => PostPriceNotPastTarget /\ PostPriceWithinRounding

\* C15 witness: with a fee of 0.3% on a pool of 10 by 45 units the post-trade
\* price is past the target, within the fee.
C15_Witness ==
    /\ Solved
    /\ amm.args.fee_basis_points = 30
    /\ ~PostPriceNotPastTarget
    /\ PostPriceWithinFee

\* get_output_amount has returned.
Quoted == amm.phase = "done" /\ amm.op = "output"

\* The arguments get_output_amount accepts.
ValidQuoteArgs(a) ==
    /\ a.dx > 0 /\ a.reserve_x > 0 /\ a.reserve_y > 0
    /\ 0 <= a.fee_bps /\ a.fee_bps < BPS_DENOM

\* C16: for dx > 0, reserves > 0 and a fee in [0, BPS_DENOM) the output is at
\* least 0 and strictly less than reserve_y: no swap drains the opposite
\* reserve.
C16_OutputBelowReserve ==
    (Quoted /\ ValidQuoteArgs(amm.args)) => (0 <= amm.dy /\ amm.dy < amm.args.reserve_y)

\* C16 witness: an input larger than reserve_x that takes all of reserve_y
\* but its last unit.
C16_Witness ==
    /\ Quoted /\ ValidQuoteArgs(amm.args)
    /\ amm.args.dx > amm.args.reserve_x
    /\ amm.args.reserve_y >= 2
    /\ amm.dy = amm.args.reserve_y - 1

\* floor(dx * (BPS_DENOM - fee_bps) / BPS_DENOM), the fee-reduced input.
FeeReducedInput(a) == (a.dx * (BPS_DENOM - a.fee_bps)) \div BPS_DENOM

\* C17: get_output_amount returns 0 when dx or a reserve is <= 0, when the fee
\* is outside [0, BPS_DENOM), or when the fee-reduced input floors to 0.  (It
\* divides by BPS_DENOM and by reserve_x + dx_eff > 0 only: nothing in it
\* raises.)
C17_ZeroOnBadInput ==
    (Quoted /\ (~ValidQuoteArgs(amm.args) \/ FeeReducedInput(amm.args) = 0)) => amm.dy = 0

\* C17 witness: one wei into a pool with a fee of 0.3%: the fee-reduced input
\* floors to 0 and so does the output, with every argument in range.
C17_Witness ==
    /\ Quoted /\ ValidQuoteArgs(amm.args)
    /\ amm.args.fee_bps = 30
    /\ FeeReducedInput(amm.args) = 0
    /\ amm.dy = 0

\* C18: with a fee of 0 and positive dx, x, y the output is exactly
\* floor(y * dx / (x + dx)).
C18_ExactWithoutFee ==
    (Quoted /\ ValidQuoteArgs(amm.args) /\ amm.args.fee_bps = 0) =>
        amm.dy = (amm.args.reserve_y * amm.args.dx) \div (amm.args.reserve_x + amm.args.dx)

\* C18 witness: a quote without fee whose quotient is not whole, so that the
\* floor cuts it: 0 < dy and dy * (x + dx) < y * dx.
C18_Witness ==
    /\ Quoted /\ ValidQuoteArgs(amm.args) /\ amm.args.fee_bps = 0
    /\ amm.dy > 0
    /\ amm.dy * (amm.args.reserve_x + amm.args.dx) < amm.args.reserve_y * amm.args.dx


----------------------------------------------------------------------------
(* C21: every execute_opportunity call ends in exactly one ExecutionResult *)
(* and no exception leaves it.  ExecutionFailures are the exceptions the   *)
(* claim names: the swap submission error, the non-success terminal status *)
(* and the confirmation timeout.                                           *)

ExecutionFailures ==
    {"Transaction submission failed", "Transaction failed", "Transaction timeout"}

\* The step in which the call of caller t ends.
Returns(t) == pc[t] # "idle" /\ pc'[t] = "idle"

----------------------------------------------------------------------------
(* C22: scan_for_opportunity never raises; every failure it meets ends the *)
(* scan with no opportunity.                                               *)

\* The stages at which a scan ends.
ScanStages == {"pool", "reserves", "prices", "balances", "finder"}

\* oracle_price = (price_a * WEI_SCALE) // price_b of the prices a scan got.
ScanPriceRatio == (scan.price_a.price * WEI_SCALE) \div scan.price_b.price

----------------------------------------------------------------------------
(* Claims about the polling loop (BotSpec)                                  *)

\* The main thread is inside execute_opportunity.
MainExecuting == calls[Main].pc \notin {"idle", "returned", "propagated"}

\* What find_optimal_trade_auto returns for the data a scan recorded: its
\* reserves, its gas-adjusted balances and the ratio of its prices.
OpportunityFrom(s) ==
    OpportunityOf(
        find_optimal_trade_auto(
            s.pool.reserve_a, s.pool.reserve_b,
            (s.price_a.price * WEI_SCALE) \div USDST_PRICE_WEI,
            check_gas_balance([is_usdst |-> FALSE, balance |-> s.pool.balance_a],
                              s.pool.balance_a, s.gas_a),
            check_gas_balance([is_usdst |-> TRUE, balance |-> s.pool.balance_b],
                              s.pool.balance_b, s.gas_b),
            cfg.fee_bps, cfg.min_profit))

\* C23: whenever the loop is executing an opportunity on an executor, the
\* scan of this polling cycle ran on that executor and got as far as the
\* finder, the opportunity executed is the one that scan returned, that
\* opportunity is what the finder computes from the reserves, balances and
\* price of that scan, and the pool data and the price were both fetched in
\* this cycle; the record of the scan is emptied when a cycle begins.
C23_ExecutesWhatThisCycleScanned ==
    /\ MainExecuting =>
          /\ bot.pos = "exec"
          /\ bot.scanned.stage = "finder"
          /\ bot.scanned.on = calls[Main].on
          /\ calls[Main].on = bot.i
          /\ calls[Main].opportunity = bot.scanned.result
          /\ calls[Main].opportunity # NoOpportunity
          /\ bot.scanned.result = OpportunityFrom(bot.scanned)
          /\ bot.scanned.pool.at = ThisCycle
          /\ bot.scanned.price_a.at = ThisCycle
    /\ bot.pos = "for" /\ bot.i = 1 => bot.scanned = NotScanned /\ bot.opp = NoOpportunity

\* Witness: in a cycle in which the first executor's scan found nothing, the
\* loop is waiting for the confirmation of the swap that the second
\* executor's scan returned, while executor 2 still holds older cached pool
\* data of executor 1.
C23_Witness ==
    /\ calls[Main].pc = "wait"
    /\ calls[Main].on = 2
    /\ bot.scanned.on = 2
    /\ calls[Main].opportunity = bot.scanned.result
    /\ calls[Main].opportunity.direction = "sell"
    /\ executors[1].pool_data.at = Earlier


\* C24: no executor is scanning while its is_executing is set, and while a
\* scan is active on any executor the loop has no execute_opportunity call
\* that has not ended: the attempt before it has returned its result (or the
\* cycle found nothing), every flag is clear and every lock is free.
C24_ScanNeverOverlapsExecution ==
    /\ \A e \in Pairs : ~(executors[e].scanning /\ executors[e].is_executing)
    /\ (\E e \in Pairs : executors[e].scanning) =>
          /\ bot.pos = "scan"
          /\ executors[bot.i].scanning
          /\ calls[Main] = IdleCall
          /\ \A e \in Pairs : /\ ~executors[e].is_executing
                              /\ executors[e].execution_lock = NoOne
    /\ MainExecuting => \A e \in Pairs : ~executors[e].scanning

\* Witness: executor 1 is being scanned in a cycle that follows an execution
\* on executor 1, which has ended and has cleared its flag.
C24_Witness ==
    /\ executors[1].scanning
    /\ executors[1].last_execution_time = TimeNow
    /\ ~executors[1].is_executing


\* What ends a confirmation: wait_for_transaction returned, or it raised the
\* failure of the transaction or the timeout.
ConfirmationEnded(c) ==
    \/ c.pc = "ledger"
    \/ c.pc = "finally" /\ c.raised \in {"Transaction failed", "Transaction timeout"}

\* C26: an execution that is waiting for the confirmation of its swap leaves
\* the wait only by confirmation, failure or timeout, and self.running is
\* set to false only while no execute_opportunity call of the loop is in
\* progress.
C26_SignalWaitsForConfirmation ==
    [][ /\ calls[Main].pc = "wait" /\ calls'[Main] # calls[Main] =>
              ConfirmationEnded(calls'[Main])
        /\ bot.running /\ ~bot'.running => bot.pos # "exec" ]_vars

\* What the signal leaves behind when it cuts an execution short: the loop
\* has stopped, no result was returned, and the finally block has cleared
\* the flag and released the lock.
StoppedLoopLeavesGuardClear ==
    bot.pos = "exited" =>
        /\ calls[Main] = IdleCall
        /\ \A e \in Pairs : ~executors[e].is_executing /\ executors[e].execution_lock = NoOne

\* An execution whose confirmation wait was ended by the signal.
ConfirmationCutShort ==
    /\ calls[Main].pc = "propagated"
    /\ calls[Main].raised = KeyboardInterrupt
    /\ calls[Main].transactions = 1
    /\ calls[Main].result = NoResult
    /\ bot.running


\* C27: the data a scan decides on was fetched by that scan: once the scan
\* is past the pool fetch its pool data (reserves and balances) carry this
\* cycle's stamp although the executor held cached pool data; a price of
\* token A it uses carries this cycle's stamp and the price of USDST is the
\* fixed one; and a scan whose price request brought no price for token A
\* ends at the price stage with no opportunity, whatever the oracle has
\* cached for it.
C27_ScanUsesOnlyFreshData ==
    bot.scanned # NotScanned =>
        /\ bot.scanned.stage # "pool" => bot.scanned.pool.at = ThisCycle
        /\ bot.scanned.stage = "pool" => bot.scanned.result = NoOpportunity
        /\ bot.scanned.price_a.found => bot.scanned.price_a.at = ThisCycle
        /\ bot.scanned.stage \in {"prices", "balances", "finder"}
              /\ ~bot.scanned.price_a.found =>
              /\ bot.scanned.stage = "prices"
              /\ bot.scanned.result = NoOpportunity
        /\ bot.scanned.stage = "finder" =>
              /\ bot.scanned.price_a.found
              /\ bot.scanned.result = OpportunityFrom(bot.scanned)

\* Witness: the oracle holds an earlier price of 1.5 for token A, at which
\* the pool this scan fetched (priced at 1.0) would be worth buying from; the
\* price request of this scan brought nothing and the scan returned no
\* opportunity.
C27_Witness ==
    /\ bot.pos = "if_opp"
    /\ bot.scanned.stage = "prices"
    /\ ~bot.scanned.price_a.found
    /\ bot.scanned.pool = PoolData(1000, 1000, 500, 500, ThisCycle)
    /\ oracle[bot.scanned.on] = PriceAt((3 * WEI_SCALE) \div 2, Earlier)
    /\ bot.opp = NoOpportunity


----------------------------------------------------------------------------
(* Claims about Pool.swap (SwapSpec)                                        *)

\* C28: the minAmountOut of the transaction is the expected output handed to
\* Pool.swap times 96/100, truncated: the largest integer whose hundredfold
\* does not exceed 96 times the expected output.  It is never greater than
\* the expected output and is smaller whenever the expected output is
\* positive; it is the same under every configuration of the executor, and
\* the amount and the direction are passed on unchanged.
C28_MinAmountOutIsNinetySixPercent ==
    swap.phase = "done" =>
        LET expected_output == swap.call.min_amount_out
            submitted == swap.args.minAmountOut
        IN  /\ submitted = (expected_output * 96) \div 100
            /\ 100 * submitted <= 96 * expected_output
            /\ 96 * expected_output < 100 * (submitted + 1)
            /\ submitted <= expected_output
            /\ expected_output > 0 => submitted < expected_output
            /\ swap.args.amountIn = swap.call.amount_in
            /\ swap.args.isAToB = (swap.call.token_in = "a")

\* Witness: under the configuration without a pool fee, a swap of token B
\* with an expected output of 99, which is not a multiple of 25, was built
\* with minAmountOut 95.
C28_Witness ==
    /\ swap.phase = "done"
    /\ cfg.fee_bps = 0
    /\ swap.call.token_in = "b"
    /\ swap.call.min_amount_out = 99
    /\ swap.args.minAmountOut = 95


----------------------------------------------------------------------------
(* Claims about wait_for_transaction (WaitSpec, WaitFairSpec)               *)

\* wait_for_transaction ends, by returning or by raising.
WaitEnds == <>(waiter.pc = "done")

\* The clock stays within one request and one sleep of the ceiling.
WaitClockBounded ==
    waiter.pc # "none" =>
        waiter.elapsed < waiter.timeout + MaxRequestSeconds + PollSleepSeconds + 1

\* C25: wait_for_transaction ends; a poll that brings status Success returns,
\* one that brings Failed or Failure raises at once, one that brings a
\* pending or unknown status or whose request fails is followed by a sleep
\* of 2 seconds, and the loop raises the timeout once the ceiling has
\* elapsed.
C25_WaitEndsAsStated ==
    /\ <>(waiter.pc = "done")
    /\ [][ /\ waiter.pc = "poll" /\ waiter'.last.status = "Success" =>
                 waiter'.pc = "done" /\ waiter'.outcome = "Success"
           /\ waiter.pc = "poll" /\ waiter'.last.status \in {"Failed", "Failure"} =>
                 waiter'.pc = "done" /\ waiter'.outcome = "Transaction failed"
           /\ waiter.pc = "poll"
                 /\ waiter'.last.status \in {"Pending", "Unknown", "empty", "error"} =>
                 waiter'.pc = "sleep"
           /\ waiter.pc = "sleep" =>
                 waiter'.pc = "while" /\ waiter'.elapsed = waiter.elapsed + 2
           /\ waiter.pc = "while" /\ waiter.elapsed >= waiter.timeout =>
                 waiter'.pc = "done" /\ waiter'.outcome = "Transaction timeout" ]_vars

\* The part of C25 that every call keeps: a status Failed or Failure whose
\* txResult is null, or a failing request whose text has the words
\* 'Transaction failed', are the only polls that do not do what C25 says.
WaitPollsAsStatedOtherwise ==
    [][ waiter.pc = "poll"
        /\ ~(waiter'.last.status \in {"Failed", "Failure"} /\ waiter'.last.txResult = "null")
        /\ ~(waiter'.last.status = "error" /\ HasTransactionFailed(waiter'.last.text)) =>
           /\ waiter'.last.status = "Success" =>
                 waiter'.pc = "done" /\ waiter'.outcome = "Success"
           /\ waiter'.last.status \in {"Failed", "Failure"} =>
                 waiter'.pc = "done" /\ waiter'.outcome = "Transaction failed"
           /\ waiter'.last.status \in {"Pending", "Unknown", "empty", "error"} =>
                 waiter'.pc = "sleep" ]_vars

\* A call that got status Failed with a null txResult and went on polling
\* until the timeout.
WaitFailedThenTimedOut ==
    /\ waiter.pc = "done"
    /\ waiter.outcome = "Transaction timeout"
    /\ waiter.last.status = "Failed"
    /\ waiter.polls >= 2


----------------------------------------------------------------------------
(* Claims about a record call on a missing profit file (LedgerSpec)         *)

\* The writer found no file: it is past os.path.exists without having
\* loaded a record.
SawNoFile(w) ==
    wpc[w] \in {"open_w", "lock_w", "write", "unlock_w"} /\ wloc[w].data = "unset"

\* C29: a call that finds no file goes on to the write with the total 0 plus
\* its converted profit, it creates the file, and what it writes into the
\* file it created is its converted profit; when the first call has run
\* alone the file holds exactly the converted profit of that call.
C29_MissingFileCountsAsZero ==
    [][ /\ \A w \in Writers :
              /\ wpc[w] = "exists" /\ file.kind = "missing" /\ wpc'[w] # wpc[w] =>
                    /\ wpc'[w] = "open_w"
                    /\ wloc'[w].cumulative_profit_wei = 0 + wloc[w].profit_usd_wei
              /\ SawNoFile(w) =>
                    wloc[w].cumulative_profit_wei = wloc[w].profit_usd_wei
              /\ SawNoFile(w) /\ wpc[w] = "open_w" /\ wpc'[w] = "lock_w" =>
                    file'.kind # "missing"
              /\ SawNoFile(w) /\ wpc[w] = "write" /\ wpc'[w] = "unlock_w"
                    /\ file.kind = "empty" =>
                    file' = FileJson(wloc[w].profit_usd_wei)
        /\ nrecords = 1 /\ (\A w \in Writers : wpc[w] = "idle") =>
              file = FileJson(recorded) ]_vars

\* Witness: the first call, of profit 2 at the price 1.5, found no file, has
\* returned, and the file holds 3.
C29_Witness ==
    /\ nrecords = 1
    /\ \A w \in Writers : wpc[w] = "idle"
    /\ recorded = ProfitUsdWei(2, (3 * WEI_SCALE) \div 2)
    /\ file = FileJson(3)


----------------------------------------------------------------------------
(* Claims about the guards of several executors (PairSpec)                  *)

\* The callers that are inside execute_opportunity on executor e, between
\* setting and clearing its flag.
InsideOn(e) ==
    { t \in Callers : calls[t].on = e /\ calls[t].pc \in {"swap", "wait", "ledger", "finally", "clear"} }

\* The callers that hold or have asked for the lock of executor e.
AtLockOf(e) ==
    { t \in Callers : calls[t].on = e /\ calls[t].pc \in {"check", "set", "clear"} }

\* C30: an executor's flag is set only while a caller is executing on that
\* same executor and its lock is held only by a caller of that same
\* executor; a call is rejected as busy only when a caller is executing on
\* the executor the call was made on; and a call that asks for the lock of an
\* executor on which nobody is at the lock can take it, whatever is in
\* progress on the other executors.
C30_GuardsAreIndependent ==
    [][ /\ \A e \in Pairs :
              /\ executors[e].is_executing => InsideOn(e) # {}
              /\ executors[e].execution_lock # NoOne =>
                    executors[e].execution_lock \subseteq AtLockOf(e)
        /\ \A t \in Callers :
              /\ calls[t].pc = "check" /\ calls'[t].pc = "returned" =>
                    /\ calls'[t].result.error_message = AlreadyRunning
                    /\ InsideOn(calls[t].on) # {}
              /\ calls[t].pc = "check" /\ InsideOn(calls[t].on) = {} =>
                    calls'[t].pc \in {"check", "set"}
              /\ calls[t].pc \in {"acquire", "finally"} /\ AtLockOf(calls[t].on) = {} =>
                    ENABLED (AcquireOn(t) \/ FinallyOn(t)) ]_vars

\* Witness: two callers are waiting for the confirmation of their swaps at
\* the same time, one on each executor.
C30_Witness ==
    \E t, u \in Callers :
        /\ calls[t].pc = "wait" /\ calls[t].on = 1
        /\ calls[u].pc = "wait" /\ calls[u].on = 2
        /\ executors[1].is_executing /\ executors[2].is_executing


----------------------------------------------------------------------------
(* Claims about the path from a finding to the swap (BotSpec)               *)

\* What find_optimal_trade_auto handed back for the data a scan recorded.
FindingFrom(s) ==
    find_optimal_trade_auto(
        s.pool.reserve_a, s.pool.reserve_b,
        (s.price_a.price * WEI_SCALE) \div USDST_PRICE_WEI,
        check_gas_balance([is_usdst |-> FALSE, balance |-> s.pool.balance_a],
                          s.pool.balance_a, s.gas_a),
        check_gas_balance([is_usdst |-> TRUE, balance |-> s.pool.balance_b],
                          s.pool.balance_b, s.gas_b),
        cfg.fee_bps, cfg.min_profit)

\* The swap of the loop's execution has been built by Pool.swap.
MainSwapBuilt == calls[Main].args # NoSwapArgs

\* C31: once the swap of an execution is built, the finding of this cycle's
\* scan is a trade; an X->Y finding was turned into a "sell" and its swap
\* spends token A (isAToB true), a Y->X finding was turned into a "buy" and
\* its swap spends token B (isAToB false); amountIn is the opportunity's
\* optimal_input, which is the finding's amount_in.
C31_SideBecomesSwapDirection ==
    MainSwapBuilt =>
        LET found == FindingFrom(bot.scanned)
            o == calls[Main].opportunity
            args == calls[Main].args
        IN  /\ found.kind = "trade"
            /\ found.side \in {"X->Y", "Y->X"}
            /\ found.side = "X->Y" => o.direction = "sell" /\ args.isAToB
            /\ found.side = "Y->X" => o.direction = "buy" /\ ~args.isAToB
            /\ args.amountIn = o.optimal_input
            /\ o.optimal_input = found.amount_in
            /\ args.amountIn > 0

\* Witness: the scan of a pool that prices A at 2.0 against an oracle price
\* of 1.5 found X->Y, and the swap submitted sells 154 of token A.
C31_Witness ==
    /\ calls[Main].pc = "wait"
    /\ FindingFrom(bot.scanned).side = "X->Y"
    /\ calls[Main].opportunity.direction = "sell"
    /\ calls[Main].args.isAToB
    /\ calls[Main].args.amountIn = 154

\* The other direction: a Y->X finding submitted as a swap of token B.
BuySubmittedAsBToA ==
    /\ calls[Main].pc = "wait"
    /\ FindingFrom(bot.scanned).side = "Y->X"
    /\ calls[Main].opportunity.direction = "buy"
    /\ ~calls[Main].args.isAToB
    /\ calls[Main].args.amountIn = calls[Main].opportunity.optimal_input


----------------------------------------------------------------------------
(* Claims about repeated calls of find_optimal_trade_auto (RepeatSpec)      *)

RepeatedCallsDiffer ==
    /\ finder.phase = "again"
    /\ finder.first.found.kind = "trade" /\ finder.first.found.side = "X->Y"
    /\ finder.found.kind = "reason"


----------------------------------------------------------------------------
(* Claims about the order of write, sync and unlock (LedgerSpec)            *)

----------------------------------------------------------------------------
(* Claims about the polling loop and one scan cycle (BotSpec)               *)

\* A cycle ends without a trade: an Exception reached the handler of run,
\* no executor returned an opportunity, or the execution returned a failure.
CycleEndsWithoutTrade ==
    \/ ExceptException
    \/ For /\ bot.i > NumPairs
    \/ ReturnSuccess /\ ~calls[Main].result.success

\* C34: a cycle that ends with an Exception, without an opportunity or with
\* a failed execution leaves self.running set and goes to
\* time.sleep(self.interval), which can return; the loop comes back to its
\* head still running only from that sleep, the one of the try block or the
\* one of the handler; self.running is cleared only by a KeyboardInterrupt,
\* and a running loop is left only by a KeyboardInterrupt.
C34_LoopStaysAlive ==
    [][ /\ CycleEndsWithoutTrade =>
              /\ bot'.running = bot.running
              /\ bot'.pos \in {"sleep", "error_sleep"}
        /\ bot.pos \in {"sleep", "error_sleep"} => ENABLED Sleep
        /\ bot.pos # "while" /\ bot'.pos = "while" /\ bot'.running =>
              bot.pos \in {"sleep", "error_sleep"} /\ Sleep
        /\ bot.running /\ ~bot'.running => InterruptLoop \/ ExceptKeyboardInterrupt
        /\ bot.pos # "exited" /\ bot'.pos = "exited" =>
              ~bot.running \/ InterruptErrorSleep ]_vars

\* Witness: the loop is back at its head and running after an Exception that
\* followed a scan of this cycle and the sleep of the handler.
C34_Witness ==
    /\ bot.pos = "while"
    /\ bot.running
    /\ bot.i = 0
    /\ \E e \in Pairs : executors[e].pool_data.at = ThisCycle

\* time.sleep(self.interval) returns after the interval and the loop head is
\* evaluated again: the loop with these two steps taken whenever they stay
\* possible.
BotFairSpec == BotSpec /\ WF_vars(Sleep) /\ WF_vars(While)

\* After a loop error the next cycle starts, unless a KeyboardInterrupt ends
\* the loop first.
LoopErrorLeadsToNextCycle ==
    (bot.pos = "error_sleep") ~> (bot.pos \in {"for", "exited"})


\* C35: within a cycle the scans go through the executors in order, from
\* the first: the index moves on by one only after a scan that returned
\* nothing, and only the executor at the index is scanned or changed.  An
\* execution starts only on the executor whose scan just returned an
\* opportunity, with that opportunity; it submits at most one swap; when it
\* ends, with a result or an exception, scan_once is left without another
\* scan, and the next scan belongs to the cycle that the loop head starts.
C35_FirstOpportunityEndsCycle ==
    [][ /\ bot'.i # bot.i =>
              \/ While /\ bot'.i = 1
              \/ IfOpp /\ bot.opp = NoOpportunity /\ bot'.i = bot.i + 1
              \/ ExceptException /\ bot'.pos = "error_sleep"
        /\ bot.pos # "for" /\ bot'.pos = "for" =>
              \/ While /\ bot'.i = 1
              \/ IfOpp /\ bot.opp = NoOpportunity
        /\ \A e \in Pairs :
              /\ executors'[e].scanning /\ ~executors[e].scanning => For /\ e = bot.i
              /\ executors'[e] # executors[e] => While \/ e = bot.i
        /\ bot.pos # "exec" /\ bot'.pos = "exec" =>
              /\ bot.pos = "if_opp" /\ bot.opp # NoOpportunity
              /\ calls'[Main] = StartCall(bot.i, bot.opp)
        /\ calls'[Main].transactions > calls[Main].transactions =>
              /\ SwapOn(Main) /\ calls[Main].on = bot.i
              /\ calls[Main].transactions = 0 /\ calls'[Main].transactions = 1
        /\ bot.pos = "exec" /\ bot'.pos # "exec" =>
              /\ bot'.pos \in {"sleep", "while"}
              /\ bot'.i = bot.i ]_vars

\* Witness: the execution on the first executor has submitted its swap and
\* returned a result, scan_once has returned and the loop sleeps; the second
\* executor has not been scanned in this cycle and has never executed.
C35_Witness ==
    /\ bot.pos = "sleep"
    /\ ~bot.dry_run
    /\ bot.i = 1
    /\ bot.opp # NoOpportunity
    /\ executors[1].last_execution_time = TimeNow
    /\ executors[2].pool_data.at # ThisCycle
    /\ executors[2].last_execution_time = 0
    /\ ~executors[2].scanning


\* C36: a loop in dry-run mode never enters execute_opportunity: the loop's
\* call stays absent, with no swap built or submitted; on every executor
\* is_executing is clear, the lock is free and last_execution_time is the 0
\* of __init__; the profit file stays missing, as it was at the start.
C36_DryRunNeverExecutes ==
    bot.dry_run =>
        /\ bot.pos # "exec"
        /\ calls[Main] = IdleCall
        /\ calls[Main].transactions = 0 /\ calls[Main].args = NoSwapArgs
        /\ \A e \in Pairs :
              /\ ~executors[e].is_executing
              /\ executors[e].execution_lock = NoOne
              /\ executors[e].last_execution_time = 0
        /\ file = FileMissing

\* Witness: a dry-run loop is in at least its second cycle (the second
\* executor's pool data is from a scan of an earlier cycle), the scan of the
\* first executor returned an opportunity, and scan_once has returned
\* without executing it.
C36_Witness ==
    /\ bot.dry_run
    /\ bot.pos = "sleep"
    /\ bot.i = 1
    /\ bot.opp # NoOpportunity
    /\ executors[2].pool_data = PoolData(1000, 2000, 500, 500, Earlier)
    /\ calls[Main] = IdleCall


----------------------------------------------------------------------------
(* Claims about the result and the ledger of an execution (Spec)            *)

\* The swap of the call was submitted and wait_for_transaction returned on
\* status Success: the call went on to the ledger update.
SwapConfirmed(t) ==
    /\ txs[t] = 1
    /\ raised[t] \notin {"Transaction submission failed", "Transaction failed",
                         "Transaction timeout"}

\* C37: an execution returns success = TRUE exactly when its swap was
\* submitted and confirmed with status Success, whatever the ledger update
\* after the confirmation did.
C37_SuccessIffSwapConfirmed ==
    [][\A t \in Callers :
          pc[t] = "clear" /\ pc'[t] = "idle" =>
              /\ result'.caller = {t}
              /\ result'.success <=> SwapConfirmed(t)]_vars

\* A confirmed swap is reported as a failed execution: the call is about to
\* return with the error of the ledger call after its swap was confirmed.
ConfirmedSwapReportedFailed ==
    \E t \in Callers :
        /\ pc[t] = "clear"
        /\ SwapConfirmed(t)
        /\ raised[t] = "TypeError: missing argument price_b"


\* C38: the profit file changes only in the ledger step of a call, which a
\* call reaches only from a wait that returned on status Success, with its
\* swap submitted and no error raised, and which it leaves for the finally
\* block: once per call at most.  The busy return, a submission that raises
\* and a wait that raises with "Transaction failed" or "Transaction timeout"
\* leave the file as it is, and so does every step of the call after them.
C38_LedgerWrittenOnlyAfterConfirmation ==
    [][ /\ file' # file =>
              \E t \in Callers : pc[t] = "ledger" /\ pc'[t] = "finally" /\ raised'[t] = NoError
        /\ \A t \in Callers :
              /\ pc'[t] = "ledger" /\ pc[t] # "ledger" =>
                    pc[t] = "wait" /\ txs[t] = 1 /\ raised[t] = NoError
              /\ pc[t] = "ledger" =>
                    pc'[t] \in {"ledger", "finally"}
              /\ pc'[t] = "wait" /\ pc[t] # "wait" => pc[t] = "swap" /\ txs[t] = 0
              /\ pc[t] = "check" /\ pc'[t] = "idle" => file' = file
              /\ pc[t] \in {"swap", "wait"} /\ raised'[t] # NoError =>
                    file' = file /\ pc'[t] = "finally"
              /\ pc[t] \in {"finally", "clear"}
                    /\ raised[t] \in {"Transaction submission failed", "Transaction failed",
                                      "Transaction timeout"} =>
                    file' = file /\ pc'[t] \notin {"ledger", "wait", "swap"} ]_vars

\* Witness: a call whose swap was submitted has returned with the timeout
\* of the confirmation, and the profit file holds the total it held before.
C38_Witness ==
    /\ result.error_message = "Transaction timeout"
    /\ result.transactions = 1
    /\ ~result.success
    /\ \A t \in Callers : pc[t] = "idle"
    /\ file = FileJson(1)


----------------------------------------------------------------------------
(* Claims about what a scan leaves alone (BotSpec)                          *)

\* The execution state of executor e: its guard flag, its lock and the time
\* of its last execution.
ExecutionStateOf(e) ==
    <<executors[e].is_executing, executors[e].execution_lock,
      executors[e].last_execution_time>>

\* C39: from the entry of scan_for_opportunity to its return, with an
\* opportunity or with None at any stage, no execute_opportunity call is
\* started or moved, no swap is built or submitted, every executor keeps its
\* is_executing, its lock and its last_execution_time, and the profit file
\* is not written.
C39_ScanLeavesExecutionStateAlone ==
    [][ (bot.pos = "for" /\ bot'.pos = "scan") \/ (bot.pos = "scan" /\ bot'.pos = "if_opp") =>
          /\ calls' = calls
          /\ calls[Main] = IdleCall
          /\ \A e \in Pairs : ExecutionStateOf(e)' = ExecutionStateOf(e)
          /\ \A e \in Pairs : ~executors[e].is_executing
          /\ file' = file ]_vars

\* Witness: the first executor has executed in an earlier cycle; its scan
\* in this cycle has returned an opportunity and has left the time of that
\* execution and the clear flag in place.
C39_Witness ==
    /\ bot.pos = "if_opp"
    /\ bot.i = 1
    /\ bot.opp # NoOpportunity
    /\ bot.scanned.on = 1 /\ bot.scanned.stage = "finder"
    /\ executors[1].last_execution_time = TimeNow
    /\ ~executors[1].is_executing
    /\ executors[2].last_execution_time = 0
    /\ calls[Main] = IdleCall

\* A scan that returned None at the price stage left the same state alone.
ScanReturnedNoneAfterExecution ==
    /\ bot.pos = "if_opp"
    /\ bot.opp = NoOpportunity
    /\ bot.scanned.stage = "prices"
    /\ executors[bot.i].last_execution_time = TimeNow


----------------------------------------------------------------------------
(* Claims about a record call on a file that does not parse (LedgerSpec)    *)

\* C40: a call whose json.load finds a file that does not parse (empty or
\* garbage) ends there: it releases its lock, logs the failure and returns
\* with the file as it found it.  A call goes on to open the file for
\* writing only after it loaded a record or found no file, so the total it
\* writes never starts again from 0 over a file it could not read.
C40_UnreadableFileIsLeftAlone ==
    [][ \A w \in Writers :
          /\ wpc[w] = "read" /\ file.kind # "json" /\ wpc'[w] # "read" =>
                /\ wpc'[w] = "idle"
                /\ wloc'[w] = WriterFailed
                /\ file' = file
                /\ flock = {w} /\ flock' = NoOne
          /\ wpc'[w] = "open_w" /\ wpc[w] # "open_w" =>
                \/ wpc[w] = "unlock_r" /\ wloc[w].data = "loaded"
                \/ wpc[w] = "exists" /\ file.kind = "missing"
          /\ wpc'[w] = "unlock_r" /\ wpc[w] # "unlock_r" =>
                /\ file.kind = "json"
                /\ wloc'[w].cumulative_profit_wei = file.total
          /\ wloc[w] = WriterFailed => wpc[w] = "idle" ]_vars

\* Witness: the file holds bytes that do not parse (one record written over
\* another); a later call has read it, logged the failure and returned, and
\* the file still holds those bytes with no call in progress.
C40_Witness ==
    /\ file = FileGarbage
    /\ \A w \in Writers : wpc[w] = "idle"
    /\ \E w \in Writers : wloc[w] = WriterFailed
    /\ flock = NoOne
    /\ nrecords = MaxRecords

====
